---- MODULE Spec2Model ----
(***************************************************************************)
(* Model of the GoAgent conversation driver (agent/ConversationManager):   *)
(* the Chat loop with its snapshot/rollback, HandleToolCall and            *)
(* CallRegisteredFunction, and the history truncation (identifySafeUnits,  *)
(* selectUnitsFromEnd, truncateHistory).                                   *)
(*                                                                         *)
(* A string is modelled as a sequence of chunks [c, n]: c names the piece  *)
(* of text and n is its number of runes, which is all the token estimator  *)
(* looks at.  Slice indices are the 0-based indices of the Go code.        *)
(***************************************************************************)
EXTENDS Integers, Sequences, FiniteSets, TLC

VARIABLES
    history,                \* cm.history
    systemPrompt,           \* cm.systemPrompt
    MaxFunctionCallingNums, \* cm.MaxFunctionCallingNums
    MaxHistoryTokens,       \* cm.MaxHistoryTokens
    EnableTruncation,       \* cm.EnableTruncation
    registeredFuncs,        \* cm.registeredFuncs: name -> callable
    tools,                  \* cm.tools
    funcSchemas,            \* cm.funcSchemas
    funcParamNames,         \* cm.funcParamNames
    pc,                     \* position of the Chat call: idle, request, tools, done, panicked
    historySnapshot,        \* Chat local
    HistoryLength,          \* Chat local
    functionCallCount,      \* Chat local
    shouldExit,             \* Chat local
    stop_reason,            \* Chat local
    toolCalls,              \* choice.Message.ToolCalls of the round being processed
    tcIndex,                \* position of the range loop over toolCalls (1-based)
    ret,                    \* what Chat returned: messages, finish reason, error
    preHistory,             \* history when the running/last Chat call was entered
    userContent,            \* content built from userMessage and imageBase64s
    rounds,                 \* log: per provider round, the response and the tool outcomes
    requests,               \* provider requests made by the running/last Chat call
    info_chan,              \* log: the messages Chat sent on a non-nil info_chan
    dispatched,             \* resp and err of Chat as cm.manager.Chat returned them
    mcpClients,             \* keys of m.clients and m.sessions (MCPClientManager)
    mcpTools,               \* m.tools
    callToolLog,            \* log: the last invocation of an MCP tool
    loadLog,                \* log: the last loading of an MCP configuration
    storedCall,             \* a tool call of a vendor response, as kept in cm.history
    sentCall,               \* log: the stored tool call as put in a vendor request
    canonicalList,          \* req.Messages given to ToOpenAIRequest
    openaiReq,              \* log: openaiReq.Messages built by ToOpenAIRequest
    mu,                     \* m.mu of the MCPClientManager: its writer, its readers
    adding,                 \* position of a goroutine that calls AddMCPServer
    chatting,               \* position of a goroutine that calls Chat
    accesses,               \* the reads and writes of registry fields under way
    ctxDone,                \* the ctx given to ChatStream is cancelled
    callerStopped,          \* the caller of ChatStream receives no more
    linesLeft,              \* data lines the server has still to send
    ch,                     \* ch of Client.ChatStream: buffered values, closed
    unifiedCh,              \* unifiedCh of the wrapper: buffered values, closed
    scanner,                \* position of the goroutine of Client.ChatStream
    forwarder,              \* position of the goroutine of the wrapper
    streamProvider,         \* the provider ChatStream was called with
    converted,              \* converted of the goroutine of the wrapper
    received,               \* log: the values the caller received from the stream
    callerCtx,              \* the ctx given to Chat is cancelled
    managerCtx,             \* m.ctx of the MCPClientManager is cancelled
    toolWait,               \* position of a Chat call about its tool calls, and the
                            \* function it is waiting for
    handled,                \* tool calls handled by that Chat call
    deepseekReq,            \* log: deepseekReq.Messages built by ToDeepSeekRequest
    clock,                  \* time.Now().UnixNano() as last read by the Google adapter
    googleList,             \* the history of a conversation with Google
    googleReq               \* log: googleReq.Contents built by ToGoogleRequest

(* the function registry of the ConversationManager *)
registry == <<registeredFuncs, tools, funcSchemas, funcParamNames>>

settings == <<systemPrompt, MaxFunctionCallingNums, MaxHistoryTokens,
              EnableTruncation>>

config == <<settings, registry>>

chatLocals == <<historySnapshot, HistoryLength, functionCallCount, shouldExit,
                stop_reason, toolCalls, tcIndex, ret, preHistory, userContent,
                rounds, requests, info_chan, dispatched>>

(* the conversation and the Chat call *)
conversation == <<history, config, pc, chatLocals>>

(* the MCPClientManager *)
mcpManager == <<mcpClients, mcpTools>>

(* the state outside the ConversationManager and its MCPClientManager *)
outside == <<callToolLog, loadLog>>

(* a tool call on its way from a vendor response to a vendor request *)
wire == <<storedCall, sentCall>>

(* the conversion of a message list by the OpenAI adapter *)
openaiSide == <<canonicalList, openaiReq>>

(* the provider adapters *)
adapters == <<wire, openaiSide>>

(* a goroutine in AddMCPServer beside a goroutine in Chat *)
race == <<mu, adding, chatting, accesses>>

(* a stream started with ChatStream *)
stream == <<ctxDone, callerStopped, linesLeft, ch, unifiedCh, scanner, forwarder,
            streamProvider, converted, received>>

(* a Chat call waiting for the functions it calls *)
waiting == <<callerCtx, managerCtx, toolWait, handled>>

(* the state before the adapters of the other vendors *)
earlier == <<adapters, race, stream, waiting>>

(* a request built by the DeepSeek adapter *)
deepseekSide == <<deepseekReq>>

(* a conversation with Google: the clock its ids are minted from, its
   history, a request built from it *)
googleSide == <<clock, googleList, googleReq>>

further == <<deepseekSide, googleSide>>

aside == <<earlier, further>>

(* the state outside the conversation *)
elsewhere == <<mcpManager, outside, aside>>

vars == <<conversation, elsewhere>>

-----------------------------------------------------------------------------
(* Bounds of the model *)

MaxEntryLen == 1        \* longest history with which Chat is entered
MaxToolCalls == 2       \* tool calls the provider asks for during one Chat call
MaxFnCap == 1           \* largest value given to SetMaxFunctionCallingNums;
                        \* the setter takes any int, the smallest given is -1
MaxLen == 5             \* messages added through AddFullMessage
MaxTools == 3           \* tool definitions in cm.tools
MaxServers == 2         \* servers in the servers array of an MCP configuration
MaxList == 2            \* messages of the list given to ToOpenAIRequest
MaxLines == 12          \* data lines of the body of a streamed response
MaxClock == 4           \* readings of the clock by the Google adapter
MaxCalls == 13          \* messages of the history a Chat call is entered with

(* Program constants *)

DefaultMaxFunctionCallingNums == 15
DefaultMaxHistoryTokens == 100000
ToolCallTokens == 50
TruncationBuffer == 500
ChCap == 10             \* make(chan interface{}, 10) of Client.ChatStream
UnifiedChCap == 10      \* make(chan *ChatResponse, 10) of the wrapper

-----------------------------------------------------------------------------
(* Strings *)

Txt(c, n) == <<[c |-> c, n |-> n]>>

EmptyText == <<>>

RECURSIVE RuneCount(_)
RuneCount(text) ==
    IF text = <<>> THEN 0 ELSE Head(text).n + RuneCount(Tail(text))

HasPrefix(text, p) == Len(text) >= Len(p) /\ SubSeq(text, 1, Len(p)) = p

(* Go maps *)
EmptyMap == [k \in {} |-> k]

Put(m, k, v) == [x \in (DOMAIN m) \cup {k} |-> IF x = k THEN v ELSE m[x]]

(* error values: nil or an error carrying a message *)
NilErr == [nil |-> TRUE, msg |-> EmptyText]
Errorf(m) == [nil |-> FALSE, msg |-> m]

-----------------------------------------------------------------------------
(* general.Message, general.Content, general.ToolCall *)

RoleUser == "user"
RoleAssistant == "assistant"
RoleTool == "tool"

ContentTypeText == "text"
ContentTypeImageURL == "image_url"
ContentTypeToolRes == "tool_result"

TextContent(t) == [Type |-> ContentTypeText, Text |-> t, ToolID |-> ""]
ImageContent == [Type |-> ContentTypeImageURL, Text |-> EmptyText, ToolID |-> ""]
ToolResContent(t, id) == [Type |-> ContentTypeToolRes, Text |-> t, ToolID |-> id]

Message(role, content, calls) == [Role |-> role, Content |-> content, ToolCalls |-> calls]

ToolCall(id, name, arguments) == [ID |-> id, Name |-> name, Arguments |-> arguments]

(* a Go slice expression s[from:] with a 0-based from *)
SliceFrom(s, from) == SubSeq(s, from + 1, Len(s))

(* a Go slice expression s[from:to+1] with 0-based bounds *)
SliceRange(s, from, to) == SubSeq(s, from + 1, to + 1)

At(s, i) == s[i + 1]

-----------------------------------------------------------------------------
(* Token estimation *)

CalculateTokens(text) == IF text = EmptyText THEN 0 ELSE RuneCount(text) \div 2

RECURSIVE ContentTokens(_)
ContentTokens(content) ==
    IF content = <<>> THEN 0
    ELSE CalculateTokens(Head(content).Text) + ContentTokens(Tail(content))

calculateMessageTokens(msg) ==
    ContentTokens(msg.Content) + Len(msg.ToolCalls) * ToolCallTokens

RECURSIVE CalculateUnitTokens(_)
CalculateUnitTokens(messages) ==
    IF messages = <<>> THEN 0
    ELSE calculateMessageTokens(Head(messages)) + CalculateUnitTokens(Tail(messages))

hasToolCalls(msg) == Len(msg.ToolCalls) > 0

-----------------------------------------------------------------------------
(* Safe units *)

RECURSIVE FindEndLoop(_, _)
FindEndLoop(messages, i) ==
    IF i >= Len(messages) THEN Len(messages) - 1
    ELSE IF At(messages, i).Role = RoleTool THEN FindEndLoop(messages, i + 1)
    ELSE IF At(messages, i).Role = RoleAssistant
         THEN IF hasToolCalls(At(messages, i))
              THEN FindEndLoop(messages, i + 1)
              ELSE i
    ELSE i - 1

findEndOfToolSequence(messages, startIndex) == FindEndLoop(messages, startIndex + 1)

(* the inner loop of identifySafeUnits, entered with i one past the user
   message; yields the loop variable i, the unit's EndIndex and UnitType *)
RECURSIVE ReplyLoop(_, _)
ReplyLoop(messages, i) ==
    IF i >= Len(messages)
    THEN [i |-> i, EndIndex |-> Len(messages) - 1, UnitType |-> "dialog"]
    ELSE IF At(messages, i).Role = RoleAssistant
         THEN IF hasToolCalls(At(messages, i))
              THEN LET e == findEndOfToolSequence(messages, i)
                   IN  [i |-> e, EndIndex |-> e, UnitType |-> "tool_sequence"]
              ELSE [i |-> i, EndIndex |-> i, UnitType |-> "dialog"]
    ELSE IF At(messages, i).Role = RoleTool
         THEN ReplyLoop(messages, i + 1)
    ELSE [i |-> i - 1, EndIndex |-> i - 1, UnitType |-> "dialog"]

RECURSIVE UnitsLoop(_, _, _)
UnitsLoop(messages, i, units) ==
    IF i >= Len(messages) THEN units
    ELSE IF At(messages, i).Role = RoleUser
         THEN LET r == ReplyLoop(messages, i + 1)
                  unit == [StartIndex |-> i,
                           EndIndex   |-> r.EndIndex,
                           TokenCount |-> CalculateUnitTokens(
                                             SliceRange(messages, i, r.EndIndex)),
                           UnitType   |-> r.UnitType]
              IN  UnitsLoop(messages, r.i + 1, Append(units, unit))
    ELSE UnitsLoop(messages, i + 1, units)

identifySafeUnits(messages) ==
    IF Len(messages) = 0 THEN <<>> ELSE UnitsLoop(messages, 0, <<>>)

RECURSIVE SelectLoop(_, _, _, _, _)
SelectLoop(units, maxTokens, i, selected, currentTokens) ==
    IF i < 0 THEN selected
    ELSE IF currentTokens + At(units, i).TokenCount <= maxTokens
         THEN SelectLoop(units, maxTokens, i - 1, <<At(units, i)>> \o selected,
                         currentTokens + At(units, i).TokenCount)
    ELSE selected

selectUnitsFromEnd(units, maxTokens) ==
    IF Len(units) = 0 THEN <<>>
    ELSE SelectLoop(units, maxTokens, Len(units) - 1, <<>>, 0)

(* the selected units kept as they are *)
DropNonDialog_KeepAll(selectedUnits) == selectedUnits

(* lines 174-176: the selected units without the leading ones that are not
   of type dialog *)
RECURSIVE DropNonDialog(_)
DropNonDialog(selectedUnits) ==
    IF Len(selectedUnits) > 0 /\ Head(selectedUnits).UnitType # "dialog"
    THEN DropNonDialog(Tail(selectedUnits))
    ELSE selectedUnits

(* int(float64(MaxHistoryTokens) * 0.8) for MaxHistoryTokens >= 0 *)
Threshold(maxHistoryTokens) == (maxHistoryTokens * 4) \div 5

(* the truncation entered at the threshold already *)
Triggered_AtThreshold(messages) ==
    /\ EnableTruncation
    /\ Len(messages) # 0
    /\ CalculateUnitTokens(messages) + CalculateTokens(systemPrompt)
          >= Threshold(MaxHistoryTokens)

(* lines 137-152: truncation is enabled, there is a history, and its tokens
   with those of the system prompt are above the threshold *)
Triggered(messages) ==
    /\ EnableTruncation
    /\ Len(messages) # 0
    /\ CalculateUnitTokens(messages) + CalculateTokens(systemPrompt)
          > Threshold(MaxHistoryTokens)

(* line 155 *)
AvailableTokens == MaxHistoryTokens - CalculateTokens(systemPrompt) - TruncationBuffer

(* lines 162-176: the units selected from the end, without the leading ones
   that are not of type dialog *)
KeptUnits(messages) ==
    DropNonDialog(selectUnitsFromEnd(identifySafeUnits(messages), AvailableTokens))

(* truncation by messages instead of by safe units: the longest run of last
   messages that fits the available tokens *)
truncateHistory_ByMessages(messages) ==
    IF ~Triggered(messages) THEN messages
    ELSE IF AvailableTokens <= 0 THEN <<>>
    ELSE LET fits == { i \in 0..Len(messages) :
                         CalculateUnitTokens(SliceFrom(messages, i)) <= AvailableTokens }
             first == CHOOSE i \in fits : \A k \in fits : i <= k
         IN  SliceFrom(messages, first)

(* messages[:startIndex] instead of messages[startIndex:] *)
truncateHistory_KeepOldest(messages) ==
    IF ~Triggered(messages) THEN messages
    ELSE IF AvailableTokens <= 0 THEN <<>>
    ELSE IF Len(identifySafeUnits(messages)) = 0 THEN messages
    ELSE IF Len(KeptUnits(messages)) = 0 THEN <<>>
    ELSE SubSeq(messages, 1, Head(KeptUnits(messages)).StartIndex)

(* messages[startIndex+1:] instead of messages[startIndex:] *)
truncateHistory_SkipFirst(messages) ==
    IF ~Triggered(messages) THEN messages
    ELSE IF AvailableTokens <= 0 THEN <<>>
    ELSE IF Len(identifySafeUnits(messages)) = 0 THEN messages
    ELSE IF Len(KeptUnits(messages)) = 0 THEN <<>>
    ELSE SliceFrom(messages, Head(KeptUnits(messages)).StartIndex + 1)

truncateHistory(messages) ==
    IF ~Triggered(messages) THEN messages
    ELSE IF AvailableTokens <= 0 THEN <<>>
    ELSE IF Len(identifySafeUnits(messages)) = 0 THEN messages
    ELSE IF Len(KeptUnits(messages)) = 0 THEN <<>>
    ELSE SliceFrom(messages, Head(KeptUnits(messages)).StartIndex)

-----------------------------------------------------------------------------
(* Function registry and tool execution.  The Chinese literals of the source
   are written in pinyin between angle brackets; n is their rune count. *)

PrefixExecError == Txt("<hanshu zhixing cuowu>: ", 8)
PrefixReturned == Txt("<hanshu fanhui>: ", 6)
PrefixParseFailed == Txt("<jiexi canshu shibai>: ", 8)
PrefixConvertFailed == Txt("<zhuanhuan canshu> param0 <shibai>: ", 16)
PrefixNotRegistered == Txt("<wei zhaodao zhuce de hanshu>: ", 10)
PrefixNotFound == Txt("<wei zhaodao hanshu>: ", 7)
PrefixErrorValue == Txt("ERROR: ", 7)

(* what json.Unmarshal makes of the raw arguments: a JSON object, or neither
   an object nor a string holding one *)
ArgumentKinds == {"object", "garbage"}

(* what the registered Go function makes of a call: a value of the object does
   not convert to the type of its formal parameter (ConvertInterfaceToType
   fails), or reflect.Call invokes it and it returns, returns a non-nil error
   as last value, or panics *)
Behaviours == {"mistyped", "returns", "returns_error", "panics"}

(* CallRegisteredFunction: result, error, and whether a panic left the function *)
CallRegisteredFunction(name, arguments, behaviour) ==
    IF name \notin DOMAIN registeredFuncs
    THEN [result |-> EmptyText, err |-> Errorf(PrefixNotRegistered \o Txt(name, 1)),
          panic |-> FALSE]
    ELSE IF arguments = "garbage"
    THEN [result |-> EmptyText, err |-> Errorf(PrefixParseFailed \o Txt("syntax", 6)),
          panic |-> FALSE]
    ELSE IF behaviour = "mistyped"
    THEN [result |-> EmptyText, err |-> Errorf(PrefixConvertFailed \o Txt("type", 4)),
          panic |-> FALSE]
    ELSE IF behaviour = "panics"
    THEN [result |-> EmptyText, err |-> NilErr, panic |-> TRUE]
    ELSE IF behaviour = "returns_error"
    THEN [result |-> EmptyText,
          err |-> Errorf(PrefixExecError \o PrefixErrorValue \o Txt("boom", 4)),
          panic |-> FALSE]
    ELSE [result |-> PrefixReturned \o Txt("value", 5), err |-> NilErr, panic |-> FALSE]

(* the message put in front instead of behind *)
AddMessage_Prepend(h, role, content) == <<Message(role, content, <<>>)>> \o h

(* base.go AddMessage, as a function of the history *)
AddMessage(h, role, content) == Append(h, Message(role, content, <<>>))

(* the error of CallRegisteredFunction handed on to Chat *)
HandleToolCall_Propagate(h, toolCall, behaviour) ==
    IF toolCall.Name \in DOMAIN registeredFuncs
    THEN LET r == CallRegisteredFunction(toolCall.Name, toolCall.Arguments, behaviour)
         IN  IF r.panic
             THEN [history |-> h, err |-> NilErr, panic |-> TRUE, result |-> EmptyText]
             ELSE IF ~r.err.nil
             THEN [history |-> h, err |-> r.err, panic |-> FALSE, result |-> EmptyText]
             ELSE [history |-> AddMessage(h, RoleTool,
                                          <<ToolResContent(r.result, toolCall.ID)>>),
                   err |-> NilErr, panic |-> FALSE, result |-> r.result]
    ELSE [history |-> h, err |-> Errorf(PrefixNotFound \o Txt(toolCall.Name, 1)),
          panic |-> FALSE, result |-> EmptyText]

(* a name that is not registered answered with a tool_result, not an error *)
HandleToolCall_UnknownAsResult(h, toolCall, behaviour) ==
    IF toolCall.Name \in DOMAIN registeredFuncs
    THEN LET r == CallRegisteredFunction(toolCall.Name, toolCall.Arguments, behaviour)
             result == IF r.err.nil THEN r.result ELSE PrefixExecError \o r.err.msg
         IN  IF r.panic
             THEN [history |-> h, err |-> NilErr, panic |-> TRUE, result |-> EmptyText]
             ELSE [history |-> AddMessage(h, RoleTool,
                                          <<ToolResContent(result, toolCall.ID)>>),
                   err |-> NilErr, panic |-> FALSE, result |-> result]
    ELSE LET result == PrefixNotFound \o Txt(toolCall.Name, 1)
         IN  [history |-> AddMessage(h, RoleTool,
                                     <<ToolResContent(result, toolCall.ID)>>),
              err |-> NilErr, panic |-> FALSE, result |-> result]

(* HandleToolCall: the history it leaves, its error, and whether it panicked *)
HandleToolCall(h, toolCall, behaviour) ==
    IF toolCall.Name \in DOMAIN registeredFuncs
    THEN LET r == CallRegisteredFunction(toolCall.Name, toolCall.Arguments, behaviour)
             result == IF r.err.nil THEN r.result ELSE PrefixExecError \o r.err.msg
         IN  IF r.panic
             THEN [history |-> h, err |-> NilErr, panic |-> TRUE, result |-> EmptyText]
             ELSE [history |-> AddMessage(h, RoleTool,
                                          <<ToolResContent(result, toolCall.ID)>>),
                   err |-> NilErr, panic |-> FALSE, result |-> result]
    ELSE [history |-> h, err |-> Errorf(PrefixNotFound \o Txt(toolCall.Name, 1)),
          panic |-> FALSE, result |-> EmptyText]

-----------------------------------------------------------------------------
(* Inputs *)

UserText == Txt("U", 1200)
ShortUserText == Txt("u", 2)
AssistantText == Txt("A", 100)
PromptText == Txt("S", 200)

(* userMessage and the number of imageBase64s of a Chat call *)
UserInputs == {<<UserText, 0>>, <<EmptyText, 0>>}
SystemPrompts == {EmptyText, PromptText}
HistoryTokenLimits == {1, 700}
FunctionNames == {"f"}

(* tool calls a provider response may carry; "g" is never registered *)
ToolCallChoices ==
    { ToolCall("c1", "f", "object"),
      ToolCall("c2", "f", "garbage"),
      ToolCall("c2", "g", "object") }

ToolCallLists ==
    UNION { [1..n -> ToolCallChoices] : n \in 0..MaxToolCalls }

AssistantMessage(calls) == Message(RoleAssistant, <<TextContent(AssistantText)>>, calls)

(* messages a client may add with AddFullMessage *)
FullMessages ==
    { Message(RoleUser, <<TextContent(UserText)>>, <<>>),
      Message(RoleUser, <<TextContent(ShortUserText)>>, <<>>),
      AssistantMessage(<<>>),
      Message(RoleAssistant, <<>>, <<ToolCall("c1", "f", "object")>>),
      Message(RoleTool, <<ToolResContent(Txt("r", 2), "c1")>>, <<>>) }

-----------------------------------------------------------------------------
(* State after NewConversationManager *)

NoRet == [returned |-> FALSE, messages |-> <<>>, reason |-> "", err |-> NilErr]

NoCall == [called |-> FALSE]

NoLoad == [loaded |-> FALSE]

NoStored == [stored |-> FALSE]

NoSent == [sent |-> FALSE]

NoRequest == [built |-> FALSE]

Unlocked == [writer |-> "", readers |-> {}]

NotAdding == [at |-> "idle", left |-> 0, field |-> 1]

NoWait == [at |-> "idle", pending |-> 0, kind |-> "", ctx |-> "",
           cancelledDuring |-> FALSE, endedBy |-> ""]

(* a nil pointer *)
Nil == [nil |-> TRUE]

NoDispatch == [returned |-> FALSE]

(* a channel just made: the values in its buffer, not closed *)
OpenChan == [buf |-> <<>>, closed |-> FALSE]

Init ==
    /\ history = <<>>
    /\ systemPrompt = EmptyText
    /\ MaxFunctionCallingNums = DefaultMaxFunctionCallingNums
    /\ MaxHistoryTokens = DefaultMaxHistoryTokens
    /\ EnableTruncation = TRUE
    /\ registeredFuncs = EmptyMap
    /\ tools = <<>>
    /\ funcSchemas = EmptyMap
    /\ funcParamNames = EmptyMap
    /\ pc = "idle"
    /\ historySnapshot = <<>>
    /\ HistoryLength = 0
    /\ functionCallCount = 0
    /\ shouldExit = FALSE
    /\ stop_reason = ""
    /\ toolCalls = <<>>
    /\ tcIndex = 0
    /\ ret = NoRet
    /\ preHistory = <<>>
    /\ userContent = <<>>
    /\ rounds = <<>>
    /\ requests = 0
    /\ info_chan = <<>>
    /\ dispatched = NoDispatch
    /\ mcpClients = {}
    /\ mcpTools = EmptyMap
    /\ callToolLog = NoCall
    /\ loadLog = NoLoad
    /\ storedCall = NoStored
    /\ sentCall = NoSent
    /\ canonicalList = <<>>
    /\ openaiReq = NoRequest
    /\ mu = Unlocked
    /\ adding = NotAdding
    /\ chatting = "idle"
    /\ accesses = {}
    /\ ctxDone = FALSE
    /\ callerStopped = FALSE
    /\ linesLeft = MaxLines
    /\ ch = OpenChan
    /\ unifiedCh = OpenChan
    /\ scanner = "none"
    /\ forwarder = "none"
    /\ streamProvider = ""
    /\ converted = Nil
    /\ received = <<>>
    /\ callerCtx = FALSE
    /\ managerCtx = FALSE
    /\ toolWait = NoWait
    /\ handled = 0
    /\ deepseekReq = NoRequest
    /\ clock = 0
    /\ googleList = <<>>
    /\ googleReq = NoRequest

(* no Chat call is running: the client may call the other methods *)
Quiescent == pc \in {"idle", "done"}

(* the locals and the results of a Chat call that returned are gone once the
   client goes on to its next call *)
Forgotten ==
    /\ pc' = "idle"
    /\ historySnapshot' = <<>>
    /\ HistoryLength' = 0
    /\ functionCallCount' = 0
    /\ shouldExit' = FALSE
    /\ stop_reason' = ""
    /\ toolCalls' = <<>>
    /\ tcIndex' = 0
    /\ ret' = NoRet
    /\ preHistory' = <<>>
    /\ userContent' = <<>>
    /\ rounds' = <<>>
    /\ requests' = 0
    /\ info_chan' = <<>>
    /\ dispatched' = NoDispatch

-----------------------------------------------------------------------------
(* Setters and registration *)

SetMaxFunctionCallingNums(n) ==
    /\ Quiescent
    /\ MaxFunctionCallingNums' = n
    /\ UNCHANGED <<history, systemPrompt, MaxHistoryTokens, EnableTruncation,
                   registry>>
    /\ UNCHANGED elsewhere
    /\ Forgotten

SetMaxHistoryTokens(n) ==
    /\ Quiescent
    /\ MaxHistoryTokens' = n
    /\ UNCHANGED <<history, systemPrompt, MaxFunctionCallingNums, EnableTruncation,
                   registry>>
    /\ UNCHANGED elsewhere
    /\ Forgotten

SetSystemPrompt(prompt) ==
    /\ Quiescent
    /\ systemPrompt' = prompt
    /\ UNCHANGED <<history, MaxFunctionCallingNums, MaxHistoryTokens, EnableTruncation,
                   registry>>
    /\ UNCHANGED elsewhere
    /\ Forgotten

EnableHistoryTruncation(enable) ==
    /\ Quiescent
    /\ EnableTruncation' = enable
    /\ UNCHANGED <<history, systemPrompt, MaxFunctionCallingNums, MaxHistoryTokens,
                   registry>>
    /\ UNCHANGED elsewhere
    /\ Forgotten

(* a Go value handed to the registration: whether it is a function, whether
   its parameter and return types are supported, and its number of parameters *)
Func(numIn) == [kind |-> "native", isFunc |-> TRUE, supported |-> TRUE, NumIn |-> numIn]

NotAFunc == [kind |-> "native", isFunc |-> FALSE, supported |-> TRUE, NumIn |-> 0]

UnsupportedFunc == [kind |-> "native", isFunc |-> TRUE, supported |-> FALSE, NumIn |-> 1]

(* fmt.Sprintf("param%d", i) *)
ParamName(i) == <<"param0", "param1", "param2", "param3">>[i + 1]

(* general.Tool: the name, the names of the properties of the parameters
   object, and its required list *)
Tool(name, properties, required) ==
    [Name |-> name, Properties |-> properties, Required |-> required]

Range(seq) == { seq[i] : i \in 1..Len(seq) }

(* the registry and the MCPClientManager as one value *)
World ==
    [funcs |-> registeredFuncs, schemas |-> funcSchemas, names |-> funcParamNames,
     tools |-> tools, clients |-> mcpClients, mtools |-> mcpTools]

Become(w) ==
    /\ registeredFuncs' = w.funcs
    /\ funcSchemas' = w.schemas
    /\ funcParamNames' = w.names
    /\ tools' = w.tools
    /\ mcpClients' = w.clients
    /\ mcpTools' = w.mtools

(* lines 65-69 (also 129-132, part_012 563-566): the callable, the tool
   definition and the parameter names saved under the name, the tool
   definition appended to cm.tools *)
SaveFunction(w, name, fnValue, tool, paramNames) ==
    [w EXCEPT !.funcs = Put(@, name, fnValue),
              !.schemas = Put(@, name, tool),
              !.names = Put(@, name, paramNames),
              !.tools = Append(@, tool)]

(* the registering calls of the model leave at most MaxTools tools *)
Room(n) == Len(tools) + n <= MaxTools

RegisterFunctionSimple(name, fn) ==
    /\ Quiescent
    /\ Room(1)
    /\ IF ~fn.isFunc \/ ~fn.supported
       THEN UNCHANGED <<registry, mcpManager>>
       ELSE LET paramNames == [i \in 1..fn.NumIn |-> ParamName(i - 1)]
            IN  Become(SaveFunction(World, name, fn,
                                    Tool(name, Range(paramNames), paramNames),
                                    paramNames))
    /\ UNCHANGED <<history, settings, outside, aside>>
    /\ Forgotten

(* RegisterFunction: as RegisterFunctionSimple, with the parameter names (and
   as many descriptions, nDescriptions) given by the caller *)
RegisterFunction(name, fn, paramNames, nDescriptions) ==
    /\ Quiescent
    /\ Room(1)
    /\ IF \/ ~fn.isFunc
          \/ fn.NumIn # Len(paramNames) \/ fn.NumIn # nDescriptions
          \/ ~fn.supported
       THEN UNCHANGED <<registry, mcpManager>>
       ELSE Become(SaveFunction(World, name, fn,
                                Tool(name, Range(paramNames), paramNames),
                                paramNames))
    /\ UNCHANGED <<history, settings, outside, aside>>
    /\ Forgotten

(* lines 183-188: the first tool of cm.tools with the name is replaced *)
RECURSIVE ReplaceFirst(_, _, _)
ReplaceFirst(ts, name, tool) ==
    IF ts = <<>> THEN <<>>
    ELSE IF Head(ts).Name = name THEN <<tool>> \o Tail(ts)
    ELSE <<Head(ts)>> \o ReplaceFirst(Tail(ts), name, tool)

ModifyFunctionParaDescription(name, paraNames, nDescriptions) ==
    /\ Quiescent
    /\ IF \/ name \notin DOMAIN registeredFuncs
          \/ registeredFuncs[name].NumIn # Len(paraNames)
          \/ registeredFuncs[name].NumIn # nDescriptions
          \/ name \notin DOMAIN funcSchemas
       THEN UNCHANGED registry
       ELSE LET tool == Tool(name, Range(paraNames), paraNames)
            IN  /\ funcSchemas' = Put(funcSchemas, name, tool)
                /\ tools' = ReplaceFirst(tools, name, tool)
                /\ UNCHANGED <<registeredFuncs, funcParamNames>>
    /\ UNCHANGED <<history, settings, elsewhere>>
    /\ Forgotten

-----------------------------------------------------------------------------
(* MCP servers and their tools (MCPClientManager) *)

(* fmt.Sprintf("mcp_%s_%s", config.Name, tool.Name), on the server and tool
   names of the model *)
MCPToolName(server, tool) ==
    CASE server = "s"   /\ tool = "u"   -> "mcp_s_u"
      [] server = "s"   /\ tool = "t_u" -> "mcp_s_t_u"
      [] server = "s_t" /\ tool = "u"   -> "mcp_s_t_u"
      [] server = "s_t" /\ tool = "t_u" -> "mcp_s_t_t_u"

(* the property names of the model in the order of Go's string comparison *)
NameOrder == <<"a", "b", "c">>

(* an input schema: the names of its properties and its required list *)
Schema(properties, required) == [properties |-> properties, required |-> required]

(* parseMCPSchema: the parameters in the order of their names, each with
   whether the required list names it *)
parseMCPSchema(schema) ==
    LET paramNames == SelectSeq(NameOrder, LAMBDA n : n \in schema.properties)
    IN  [i \in 1..Len(paramNames) |->
            [Name |-> paramNames[i], Required |-> paramNames[i] \in schema.required]]

(* createProxyFunction: a function of len(params) parameters that hands
   argsMap[params[i].Name] = args[i] to CallTool(toolName, argsMap) *)
createProxyFunction(toolName, params) ==
    [kind |-> "mcp", isFunc |-> TRUE, supported |-> TRUE, NumIn |-> Len(params),
     toolName |-> toolName, params |-> [i \in 1..Len(params) |-> params[i].Name]]

registerMCPToolManually(w, toolName, toolInfo, params, proxyFunc) ==
    LET required == SelectSeq(params, LAMBDA q : q.Required)
        tool == Tool(toolName, { params[i].Name : i \in 1..Len(params) },
                     [i \in 1..Len(required) |-> required[i].Name])
        paramNames == [i \in 1..Len(params) |-> params[i].Name]
    IN  SaveFunction(w, toolName, proxyFunc, tool, paramNames)

registerToolToConversationManager(w, toolName, toolInfo) ==
    LET params == parseMCPSchema(toolInfo.InputSchema)
        requiredParams == SelectSeq(params, LAMBDA q : q.Required)
        proxyFunc == createProxyFunction(toolName, requiredParams)
    IN  registerMCPToolManually(w, toolName, toolInfo, params, proxyFunc)

(* lines 133-161: the tools of the server registered one after the other *)
RECURSIVE RegisterTools(_, _, _)
RegisterTools(w, server, serverTools) ==
    IF serverTools = <<>> THEN w
    ELSE LET tool == Head(serverTools)
             toolInfo == [ClientID |-> server, ToolName |-> tool.Name,
                          ServerName |-> server, InputSchema |-> tool.InputSchema]
             uniqueToolName == MCPToolName(server, tool.Name)
             registered == registerToolToConversationManager(w, uniqueToolName, toolInfo)
         IN  RegisterTools([registered EXCEPT !.mtools = Put(@, uniqueToolName, toolInfo)],
                           server, Tail(serverTools))

(* AddServer under m.mu: what it leaves and whether it returned an error.
   answer tells whether the server connects, whether it lists its tools, and
   the tools it lists *)
AddServer(w, server, answer) ==
    IF server.Name \in w.clients THEN [w |-> w, failed |-> TRUE]
    ELSE IF server.Transport # "stdio" THEN [w |-> w, failed |-> TRUE]
    ELSE IF Len(server.Command) = 0 THEN [w |-> w, failed |-> TRUE]
    ELSE IF ~answer.connects THEN [w |-> w, failed |-> TRUE]
    ELSE IF ~answer.lists THEN [w |-> w, failed |-> TRUE]
    ELSE [w |-> [RegisterTools(w, server.Name, answer.tools)
                    EXCEPT !.clients = @ \cup {server.Name}],
          failed |-> FALSE]

AddMCPServer(server, answer) ==
    /\ Quiescent
    /\ Room(Len(answer.tools))
    /\ Become(AddServer(World, server, answer).w)
    /\ UNCHANGED <<history, settings, outside, aside>>
    /\ Forgotten

(* RemoveServer: the session and the tools of the server leave the
   MCPClientManager; the registry of the ConversationManager is not touched *)
RemoveServer(w, serverName) ==
    IF serverName \notin w.clients THEN w
    ELSE [w EXCEPT !.clients = @ \ {serverName},
                   !.mtools = [n \in { k \in DOMAIN @ : @[k].ServerName # serverName }
                                  |-> @[n]]]

RemoveMCPServer(serverName) ==
    /\ Quiescent
    /\ Become(RemoveServer(World, serverName))
    /\ UNCHANGED <<history, settings, outside, aside>>
    /\ Forgotten

(* the zero value of a parameter type *)
Zero == 0

(* CallRegisteredFunction, lines 217-243: the arguments of the call, taken from
   the JSON object params under the saved parameter names, position by
   position; the zero value for a name the object lacks *)
PositionalArguments(name, params) ==
    LET savedParamNames == funcParamNames[name]
    IN  [i \in 1..registeredFuncs[name].NumIn |->
            IF savedParamNames[i] \in DOMAIN params
            THEN params[savedParamNames[i]]
            ELSE Zero]

(* the proxy function, part_012 lines 440-445: argsMap[params[i].Name] = args[i] *)
ProxyArguments(fn, args) ==
    [n \in Range(fn.params) |->
        args[CHOOSE i \in 1..Len(fn.params) : fn.params[i] = n]]

(* CallTool: the call made on the session of the tool's server, if any *)
CallTool(toolName, arguments) ==
    IF toolName \notin DOMAIN mcpTools
    THEN [reached |-> FALSE, session |-> "", Name |-> "", Arguments |-> EmptyMap]
    ELSE IF mcpTools[toolName].ClientID \notin mcpClients
    THEN [reached |-> FALSE, session |-> "", Name |-> "", Arguments |-> EmptyMap]
    ELSE [reached |-> TRUE, session |-> mcpTools[toolName].ClientID,
          Name |-> mcpTools[toolName].ToolName, Arguments |-> arguments]

(* CallRegisteredFunction on the proxy function of an MCP tool, with the JSON
   object params as arguments *)
CallMCPTool(name, params) ==
    /\ Quiescent
    /\ name \in DOMAIN registeredFuncs
    /\ registeredFuncs[name].kind = "mcp"
    /\ LET fn == registeredFuncs[name]
           call == CallTool(fn.toolName, ProxyArguments(fn, PositionalArguments(name, params)))
       IN  callToolLog' = [called |-> TRUE, tool |-> name, params |-> params,
                           schema |-> funcSchemas[name], call |-> call]
    /\ UNCHANGED <<history, config, mcpManager, loadLog, aside>>
    /\ Forgotten

-----------------------------------------------------------------------------
(* Loading an MCP configuration (MCPConfig: the servers array and the
   mcpServers object, here a sequence of names in the order in which the map
   is ranged over, each with its command) *)

MCPConfig(servers, mcpServers) == [Servers |-> servers, McpServers |-> mcpServers]

(* ValidateMCPConfig: whether it returns an error *)
RECURSIVE InvalidServers(_, _)
InvalidServers(servers, serverNames) ==
    IF servers = <<>> THEN FALSE
    ELSE LET server == Head(servers)
         IN  \/ server.Name = ""
             \/ server.Name \in serverNames
             \/ server.Transport = "stdio" /\ Len(server.Command) = 0
             \/ server.Transport = "tcp" /\ server.Address = ""
             \/ server.Transport \notin {"stdio", "tcp"}
             \/ InvalidServers(Tail(servers), serverNames \cup {server.Name})

RECURSIVE InvalidSettings(_, _)
InvalidSettings(mcpServers, serverNames) ==
    IF mcpServers = <<>> THEN FALSE
    ELSE LET entry == Head(mcpServers)
         IN  \/ entry.Name = ""
             \/ entry.Name \in serverNames
             \/ entry.Command = ""
             \/ InvalidSettings(Tail(mcpServers), serverNames \cup {entry.Name})

ValidateMCPConfig(mcpConfig) ==
    \/ Len(mcpConfig.Servers) = 0 /\ Len(mcpConfig.McpServers) = 0
    \/ InvalidServers(mcpConfig.Servers, {})
    \/ InvalidSettings(mcpConfig.McpServers,
                       { mcpConfig.Servers[i].Name : i \in 1..Len(mcpConfig.Servers) })

(* part_010 lines 56-61: the server configuration made of an entry of mcpServers *)
FromSettings(entry) ==
    [Name |-> entry.Name, Transport |-> "stdio", Command |-> <<entry.Command>>,
     Address |-> ""]

(* the loops over the servers: AddMCPServer on each, whatever the earlier ones
   returned; answers gives the answer of the server of each name *)
RECURSIVE ConnectAll(_, _, _)
ConnectAll(run, servers, answers) ==
    IF servers = <<>> THEN run
    ELSE LET server == Head(servers)
             added == AddServer(run.w, server, answers[server.Name])
         IN  ConnectAll([w |-> added.w,
                         attempted |-> Append(run.attempted, server.Name),
                         errors |-> run.errors + (IF added.failed THEN 1 ELSE 0),
                         successCount |-> run.successCount
                                             + (IF added.failed THEN 0 ELSE 1)],
                        Tail(servers), answers)

NoRun(w) == [w |-> w, attempted |-> <<>>, errors |-> 0, successCount |-> 0]

Listed(mcpConfig) ==
    { mcpConfig.Servers[i].Name : i \in 1..Len(mcpConfig.Servers) }
        \cup { mcpConfig.McpServers[i].Name : i \in 1..Len(mcpConfig.McpServers) }

Loaded(entry, mcpConfig, run, failed) ==
    [loaded |-> TRUE, entry |-> entry, listed |-> Listed(mcpConfig),
     valid |-> ~ValidateMCPConfig(mcpConfig),
     attempted |-> run.attempted, successCount |-> run.successCount,
     failed |-> failed]

(* LoadMCPConfig on a file that is read and parsed as mcpConfig *)
LoadMCPConfig(mcpConfig, answers) ==
    /\ Quiescent
    /\ IF ValidateMCPConfig(mcpConfig)
       THEN /\ loadLog' = Loaded("file", mcpConfig, NoRun(World), TRUE)
            /\ UNCHANGED <<registry, mcpManager>>
       ELSE LET old == ConnectAll(NoRun(World), mcpConfig.Servers, answers)
                run == ConnectAll(old,
                                  [i \in 1..Len(mcpConfig.McpServers) |->
                                      FromSettings(mcpConfig.McpServers[i])],
                                  answers)
            IN  /\ Len(run.w.tools) <= MaxTools
                /\ Become(run.w)
                /\ loadLog' = Loaded("file", mcpConfig, run,
                                     run.errors > 0 /\ run.successCount = 0)
    /\ UNCHANGED <<history, settings, callToolLog, aside>>
    /\ Forgotten

(* LoadMCPConfigFromBytes on bytes that are parsed as mcpConfig *)
LoadMCPConfigFromBytes(mcpConfig, answers) ==
    /\ Quiescent
    /\ IF ValidateMCPConfig(mcpConfig)
       THEN /\ loadLog' = Loaded("bytes", mcpConfig, NoRun(World), TRUE)
            /\ UNCHANGED <<registry, mcpManager>>
       ELSE LET run == ConnectAll(NoRun(World), mcpConfig.Servers, answers)
            IN  /\ Len(run.w.tools) <= MaxTools
                /\ Become(run.w)
                /\ loadLog' = Loaded("bytes", mcpConfig, run, FALSE)
    /\ UNCHANGED <<history, settings, callToolLog, aside>>
    /\ Forgotten

AddFullMessage(message) ==
    /\ Quiescent
    /\ Len(history) < MaxLen
    /\ history' = Append(history, message)
    /\ UNCHANGED <<config, elsewhere>>
    /\ Forgotten

-----------------------------------------------------------------------------
(* Chat.  The call is cut at its calls to the outside: the provider request
   and each invocation of a registered function. *)

(* the rollback left out *)
Deferred_NoRollback(success, h) == h

(* the deferred rollback of Chat *)
Deferred(success, h) == IF ~success THEN historySnapshot ELSE h

Returned(messages, reason, err) ==
    [returned |-> TRUE, messages |-> messages, reason |-> reason, err |-> err]

(* general.ChatResponse and its Choice, and what cm.manager.Chat returned to
   line 86 *)
ChatResponse(choices) == [ID |-> "resp", Choices |-> choices]

Choice(message) == [Index |-> 0, Message |-> message]

Dispatched(response, err) == [returned |-> TRUE, resp |-> response, err |-> err]

(* line 151: the messages Chat returns, without the first of them *)
NewMessages_AfterFirst(h) == SliceFrom(h, HistoryLength + 1)

(* line 151: cm.history[HistoryLength:] *)
NewMessages(h) == SliceFrom(h, HistoryLength)

(* lines 13-69: truncation, snapshot, user message, its copy on info_chan *)
ChatBegin(userMessage, nImages) ==
    /\ Quiescent
    /\ LET truncated == truncateHistory(history)
           content == (IF userMessage # EmptyText
                       THEN <<TextContent(userMessage)>> ELSE <<>>)
                      \o [i \in 1..nImages |-> ImageContent]
       IN  /\ historySnapshot' = truncated
           /\ HistoryLength' = Len(truncated)
           /\ userContent' = content
           /\ history' = IF Len(content) > 0
                         THEN AddMessage(truncated, RoleUser, content)
                         ELSE truncated
           /\ info_chan' = <<Message(RoleUser, content, <<>>)>>
    /\ preHistory' = history
    /\ stop_reason' = "success"
    /\ functionCallCount' = 0
    /\ shouldExit' = FALSE
    /\ toolCalls' = <<>>
    /\ tcIndex' = 0
    /\ ret' = NoRet
    /\ rounds' = <<>>
    /\ requests' = 0
    /\ dispatched' = NoDispatch
    /\ pc' = "request"
    /\ UNCHANGED <<config, elsewhere>>

(* Chat entered with a history within the bound of the model *)
ChatCall(userMessage, nImages) ==
    /\ Len(history) <= MaxEntryLen
    /\ ChatBegin(userMessage, nImages)

(* lines 86-89: the dispatcher returns an error *)
ProviderFail ==
    /\ pc = "request"
    /\ requests' = requests + 1
    /\ dispatched' = Dispatched(Nil, Errorf(Txt("provider", 8)))
    /\ history' = Deferred(FALSE, history)
    /\ ret' = Returned(<<>>, "", Errorf(Txt("chat failed: ", 13) \o Txt("provider", 8)))
    /\ pc' = "done"
    /\ UNCHANGED elsewhere
    /\ UNCHANGED <<config, historySnapshot, HistoryLength, functionCallCount,
                   shouldExit, stop_reason, toolCalls, tcIndex, preHistory,
                   userContent, rounds, info_chan>>

(* lines 108, 145-151: a response without choices ends the call *)
ProviderRespondEmpty ==
    /\ pc = "request"
    /\ requests' = requests + 1
    /\ dispatched' = Dispatched(ChatResponse(<<>>), NilErr)
    /\ history' = Deferred(TRUE, history)
    /\ ret' = Returned(NewMessages(history), stop_reason, NilErr)
    /\ pc' = "done"
    /\ UNCHANGED elsewhere
    /\ UNCHANGED <<config, historySnapshot, HistoryLength, functionCallCount,
                   shouldExit, stop_reason, toolCalls, tcIndex, preHistory,
                   userContent, rounds, info_chan>>

(* lines 108-119: the assistant message is appended; without tool calls the
   call ends, otherwise the range loop over the tool calls starts *)
ProviderRespond(calls) ==
    /\ pc = "request"
    /\ Len(calls) <= MaxToolCalls - functionCallCount
    /\ requests' = requests + 1
    /\ LET message == AssistantMessage(calls)
           h == Append(history, message)
       IN  /\ dispatched' = Dispatched(ChatResponse(<<Choice(message)>>), NilErr)
           /\ rounds' = Append(rounds, [resp |-> message, outcomes |-> <<>>])
           /\ info_chan' = Append(info_chan, message)
           /\ IF Len(message.ToolCalls) = 0
              THEN /\ history' = Deferred(TRUE, h)
                   /\ ret' = Returned(NewMessages(h), stop_reason, NilErr)
                   /\ pc' = "done"
                   /\ UNCHANGED <<toolCalls, tcIndex>>
              ELSE /\ history' = h
                   /\ toolCalls' = message.ToolCalls
                   /\ tcIndex' = 1
                   /\ pc' = "tools"
                   /\ UNCHANGED ret
    /\ UNCHANGED elsewhere
    /\ UNCHANGED <<config, historySnapshot, HistoryLength, functionCallCount,
                   shouldExit, stop_reason, preHistory, userContent>>

(* what the tool call and the registered function are, told from the inputs *)
Cause(toolCall, behaviour) ==
    IF toolCall.Name \notin DOMAIN registeredFuncs THEN "unknown"
    ELSE IF toolCall.Arguments = "garbage" THEN "parse_error"
    ELSE IF behaviour = "mistyped" THEN "convert_error"
    ELSE behaviour

LogOutcome(toolCall, behaviour, text) ==
    [rounds EXCEPT ![Len(rounds)].outcomes =
        Append(@, [ID |-> toolCall.ID, cause |-> Cause(toolCall, behaviour),
                   Text |-> text])]

(* the budget test one call late *)
Exceeds_OneLate(count) == count > MaxFunctionCallingNums + 1

(* line 126: the budget test *)
Exceeds(count) == count > MaxFunctionCallingNums

(* lines 122-142: one iteration of the range loop over the tool calls *)
ToolStep(behaviour) ==
    /\ pc = "tools"
    /\ LET toolCall == toolCalls[tcIndex]
           count == functionCallCount + 1
           h == HandleToolCall(history, toolCall, behaviour)
       IN  /\ functionCallCount' = count
           /\ rounds' = LogOutcome(toolCall, behaviour, h.result)
           /\ info_chan' =
                 IF toolCall.Name \in DOMAIN registeredFuncs /\ ~h.panic
                 THEN Append(info_chan,
                             Message(RoleTool,
                                     <<ToolResContent(h.result, toolCall.ID)>>, <<>>))
                 ELSE info_chan
           /\ IF h.panic
              THEN \* the panic unwinds Chat; only the deferred function runs
                   /\ history' = Deferred(FALSE, h.history)
                   /\ pc' = "panicked"
                   /\ UNCHANGED <<shouldExit, stop_reason, tcIndex, ret>>
              ELSE IF ~h.err.nil
              THEN /\ stop_reason' = "error"
                   /\ history' = Deferred(FALSE, h.history)
                   /\ ret' = Returned(<<>>, "error",
                                Errorf(Txt("<hanshu diaoyong shibai>: ", 8) \o h.err.msg))
                   /\ pc' = "done"
                   /\ UNCHANGED <<shouldExit, tcIndex>>
              ELSE IF Exceeds(count)
              THEN /\ shouldExit' = TRUE
                   /\ stop_reason' = "max_function_calling_nums"
                   /\ history' = Deferred(TRUE, h.history)
                   /\ ret' = Returned(NewMessages(h.history),
                                      "max_function_calling_nums", NilErr)
                   /\ pc' = "done"
                   /\ UNCHANGED tcIndex
              ELSE /\ history' = h.history
                   /\ IF tcIndex < Len(toolCalls)
                      THEN tcIndex' = tcIndex + 1 /\ pc' = "tools"
                      ELSE tcIndex' = tcIndex /\ pc' = "request"
                   /\ UNCHANGED <<shouldExit, stop_reason, ret>>
    /\ UNCHANGED elsewhere
    /\ UNCHANGED <<config, historySnapshot, HistoryLength, toolCalls, preHistory,
                   userContent, requests, dispatched>>

(* the registration of a name that is not registered yet *)
RegisterNew(name, fn) ==
    /\ name \notin DOMAIN registeredFuncs
    /\ RegisterFunctionSimple(name, fn)

-----------------------------------------------------------------------------
(* The program driven through Chat *)

Next ==
    \/ \E n \in (-1)..MaxFnCap : SetMaxFunctionCallingNums(n)
    \/ SetMaxHistoryTokens(1)
    \/ \E f \in FunctionNames : RegisterNew(f, Func(1))
    \/ \E in \in UserInputs : ChatCall(in[1], in[2])
    \/ ProviderFail
    \/ ProviderRespondEmpty
    \/ \E calls \in ToolCallLists : ProviderRespond(calls)
    \/ \E b \in Behaviours : ToolStep(b)

Spec == Init /\ [][Next]_vars

-----------------------------------------------------------------------------
(* The function registry under registrations, modifications and MCP servers *)

ServerNames == {"s", "s_t"}

ServerConfig(name, transport) ==
    [Name |-> name, Transport |-> transport, Command |-> <<"cmd">>,
     Address |-> IF transport = "tcp" THEN "host:1" ELSE ""]

ServerConfigs ==
    { ServerConfig(n, "stdio") : n \in ServerNames } \cup {ServerConfig("s", "tcp")}

(* a tool as the server lists it *)
ServerTool(name, schema) == [Name |-> name, InputSchema |-> schema]

Answer(connects, lists, serverTools) ==
    [connects |-> connects, lists |-> lists, tools |-> serverTools]

PlainSchema == Schema({"a"}, {"a"})

ToolLists ==
    { <<>>, <<ServerTool("u", PlainSchema)>>, <<ServerTool("t_u", PlainSchema)>>,
      <<ServerTool("u", PlainSchema), ServerTool("t_u", PlainSchema)>> }

Answers ==
    {Answer(FALSE, FALSE, <<>>), Answer(TRUE, FALSE, <<>>)}
        \cup { Answer(TRUE, TRUE, ts) : ts \in ToolLists }

NextRegistry ==
    \/ \E fn \in {Func(1), NotAFunc, UnsupportedFunc} :
          RegisterFunctionSimple("f", fn)
    \/ \E n \in 1..2 : RegisterFunction("f", Func(1), <<"a">>, n)
    \/ \E name \in {"f", "g"}, n \in 1..2 :
          ModifyFunctionParaDescription(name, <<"b">>, n)
    \/ \E server \in ServerConfigs, answer \in Answers :
          AddMCPServer(server, answer)
    \/ \E name \in ServerNames : RemoveMCPServer(name)

RegistrySpec == Init /\ [][NextRegistry]_vars

(* An MCP tool with its input schema, invoked with a JSON object *)

Schemas ==
    { Schema(ps, rs) : ps \in SUBSET {"a", "b"}, rs \in SUBSET {"a", "b"} }

(* JSON objects with a value under some of the names, another one under each *)
JSONObjects ==
    { [n \in ns |-> IF n = "a" THEN 1 ELSE 2] : ns \in SUBSET {"a", "b"} }

NextMcp ==
    \/ \E schema \in { sc \in Schemas : sc.required \subseteq sc.properties } :
          AddMCPServer(ServerConfig("s", "stdio"),
                       Answer(TRUE, TRUE, <<ServerTool("u", schema)>>))
    \/ RemoveMCPServer("s")
    \/ \E params \in JSONObjects : CallMCPTool("mcp_s_u", params)

McpSpec == Init /\ [][NextMcp]_vars

(* MCP configurations loaded from a file and from bytes *)

ServerLists ==
    UNION { [1..n -> {ServerConfig("s", "stdio"), ServerConfig("s", "tcp")}] :
              n \in 0..MaxServers }

Settings(name, command) == [Name |-> name, Command |-> command]

SettingsLists == {<<>>, <<Settings("s_t", "cmd")>>, <<Settings("s_t", "")>>}

MCPConfigs ==
    { MCPConfig(servers, mcpServers) :
        servers \in ServerLists, mcpServers \in SettingsLists }

LoadAnswers ==
    [ServerNames -> {Answer(FALSE, FALSE, <<>>),
                     Answer(TRUE, TRUE, <<ServerTool("u", PlainSchema)>>)}]

NextLoad ==
    \/ \E mcpConfig \in MCPConfigs, answers \in LoadAnswers :
          LoadMCPConfig(mcpConfig, answers)
    \/ \E mcpConfig \in MCPConfigs, answers \in LoadAnswers :
          LoadMCPConfigFromBytes(mcpConfig, answers)
    \/ \E name \in ServerNames : RemoveMCPServer(name)

LoadSpec == Init /\ [][NextLoad]_vars

(* Histories built message by message, then truncated on entry of Chat *)

NextTrunc ==
    \/ \E n \in HistoryTokenLimits : SetMaxHistoryTokens(n)
    \/ \E p \in SystemPrompts : SetSystemPrompt(p)
    \/ \E b \in BOOLEAN : EnableHistoryTruncation(b)
    \/ \E m \in FullMessages : AddFullMessage(m)
    \/ ChatBegin(UserText, 0)

TruncSpec == Init /\ [][NextTrunc]_vars

-----------------------------------------------------------------------------
(* Tool call arguments on their way through the provider adapters *)

Providers == {"openai", "anthropic", "google", "deepseek", "qwen"}

(* JSON texts: the text of the JSON object v, or that text inside `quoted`
   JSON string encodings, one inside the other *)
ObjectText(v) == [object |-> v, quoted |-> 0]

(* json.Marshal of the Go string that holds the text *)
MarshalString(text) == [text EXCEPT !.quoted = @ + 1]

(* the Go string that json.Unmarshal decodes from the JSON string *)
UnmarshalString(text) == [text EXCEPT !.quoted = @ - 1]

(* json.Unmarshal into a map[string]interface{}, which fails unless the text
   is that of an object; the adapters go on with make(map[string]interface{}) *)
UnmarshalMap(text) == IF text.quoted = 0 THEN text.object ELSE EmptyMap

MarshalMap(m) == ObjectText(m)

(* the arguments of a tool call in the body of the vendor's response and of
   the request to the vendor: a string field of OpenAI, DeepSeek and Qwen, an
   object field of Anthropic and Google *)
VendorArguments(provider, v) ==
    IF provider \in {"anthropic", "google"}
    THEN ObjectText(v)
    ELSE MarshalString(ObjectText(v))

(* Function.Arguments of the unified response, from the arguments in the body
   of the vendor's response *)
FromOpenAIResponse(arguments) == UnmarshalString(arguments)

FromQwenResponse(arguments) == UnmarshalString(arguments)

FromDeepSeekResponse(arguments) == arguments

FromAnthropicResponse(arguments) == arguments

FromGoogleResponse(arguments) == MarshalMap(UnmarshalMap(arguments))

FromResponse(provider, arguments) ==
    CASE provider = "openai"    -> FromOpenAIResponse(arguments)
      [] provider = "qwen"      -> FromQwenResponse(arguments)
      [] provider = "deepseek"  -> FromDeepSeekResponse(arguments)
      [] provider = "anthropic" -> FromAnthropicResponse(arguments)
      [] provider = "google"    -> FromGoogleResponse(arguments)

(* convertToUnifiedResponse, and the first lines of every To...Request: the
   value goes through json.Marshal and json.Unmarshal as a json.RawMessage,
   which keeps the value and its encoding *)
ThroughJSON(arguments) == arguments

(* the arguments in the body of the request to the vendor, from the
   Function.Arguments (not nil) of a tool call of the unified request *)
ToOpenAIArguments(arguments) == MarshalString(arguments)

ToQwenArguments(arguments) == MarshalString(arguments)

ToDeepSeekArguments(arguments) ==
    IF arguments.quoted = 0 THEN MarshalString(arguments) ELSE arguments

ToAnthropicArguments(arguments) == MarshalMap(UnmarshalMap(arguments))

ToGoogleArguments(arguments) == MarshalMap(UnmarshalMap(arguments))

ToRequest(provider, arguments) ==
    CASE provider = "openai"    -> ToOpenAIArguments(arguments)
      [] provider = "qwen"      -> ToQwenArguments(arguments)
      [] provider = "deepseek"  -> ToDeepSeekArguments(arguments)
      [] provider = "anthropic" -> ToAnthropicArguments(arguments)
      [] provider = "google"    -> ToGoogleArguments(arguments)

besidesWire == <<conversation, mcpManager, outside, openaiSide, race, stream, waiting,
    further>>

(* the provider answers with a tool call whose arguments are the object v;
   Chat appends the message of the unified response to the history *)
StoreResponse(provider, v) ==
    /\ storedCall' = [stored    |-> TRUE,
                      from      |-> provider,
                      object    |-> v,
                      Arguments |-> ThroughJSON(
                                       FromResponse(provider,
                                                    VendorArguments(provider, v)))]
    /\ sentCall' = NoSent
    /\ UNCHANGED besidesWire

(* a later request to a provider carries the history with the stored call *)
SendRequest(provider) ==
    /\ storedCall.stored
    /\ sentCall' = [sent      |-> TRUE,
                    to        |-> provider,
                    arguments |-> ToRequest(provider,
                                            ThroughJSON(storedCall.Arguments))]
    /\ UNCHANGED <<storedCall, besidesWire>>

NextWire ==
    \/ \E provider \in Providers, v \in JSONObjects : StoreResponse(provider, v)
    \/ \E provider \in Providers : SendRequest(provider)

WireSpec == Init /\ [][NextWire]_vars

-----------------------------------------------------------------------------
(* The messages of a request to OpenAI *)

(* the text as one string *)
RECURSIVE Flat(_)
Flat(text) ==
    IF text = <<>> THEN ""
    ELSE Head(text).c \o ":" \o ToString(Head(text).n) \o ";" \o Flat(Tail(text))

(* hex.EncodeToString(hash[:])[:32] of sha256.Sum256([]byte(id)): 32
   characters that tell the id they are the hash of *)
Sum256Hex32(id) == Txt("sha256(" \o Flat(id) \o ")", 32)

truncateToolCallID_Below40(id) ==
    IF RuneCount(id) < 40 THEN id ELSE Txt("call_", 5) \o Sum256Hex32(id)

truncateToolCallID(id) ==
    IF RuneCount(id) <= 40 THEN id ELSE Txt("call_", 5) \o Sum256Hex32(id)

OpenAIMessage(role, content, calls, toolCallID) ==
    [Role |-> role, Content |-> content, ToolCalls |-> calls,
     ToolCallID |-> toolCallID]

OpenAIToolCall(toolCall) ==
    [ID        |-> truncateToolCallID(toolCall.ID),
     Name      |-> toolCall.Name,
     Arguments |-> ToOpenAIArguments(toolCall.Arguments)]

IsToolResult(content) == content.Type = ContentTypeToolRes

(* openaiMsg.Content: the text of a message that is one text, the text and
   image parts of any other message, nil when there is none *)
OpenAIContent(content) ==
    IF Len(content) = 1 /\ content[1].Type = ContentTypeText
    THEN [string |-> content[1].Text]
    ELSE LET contents == SelectSeq(content, LAMBDA c : ~IsToolResult(c))
         IN  IF Len(contents) > 0 THEN [array |-> contents] ELSE [nil |-> TRUE]

(* one message of role tool for every tool_result of the message *)
ToolMessages(content) ==
    LET results == SelectSeq(content, IsToolResult)
    IN  [k \in 1..Len(results) |->
            OpenAIMessage("tool", [string |-> results[k].Text], <<>>,
                          truncateToolCallID(results[k].ToolID))]

(* the messages appended to openaiReq.Messages for one message of the list *)
ConvertMessage(msg) ==
    LET hasToolResult == \E k \in 1..Len(msg.Content) : IsToolResult(msg.Content[k])
        hasOtherContent == \E k \in 1..Len(msg.Content) : ~IsToolResult(msg.Content[k])
        single == Len(msg.Content) = 1 /\ msg.Content[1].Type = ContentTypeText
    IN  IF ~single /\ hasToolResult /\ ~hasOtherContent /\ Len(msg.ToolCalls) = 0
        THEN ToolMessages(msg.Content)
        ELSE <<OpenAIMessage(msg.Role, OpenAIContent(msg.Content),
                             [k \in 1..Len(msg.ToolCalls) |->
                                 OpenAIToolCall(msg.ToolCalls[k])],
                             EmptyText)>>

RECURSIVE Concat(_)
Concat(seqs) == IF seqs = <<>> THEN <<>> ELSE Head(seqs) \o Concat(Tail(seqs))

(* the record of a conversion: the list given, what each of its messages
   became, and openaiReq.Messages *)
ToOpenAIRequest(prompt, messages) ==
    LET parts == [i \in 1..Len(messages) |-> ConvertMessage(messages[i])]
        system == IF prompt # EmptyText
                  THEN <<OpenAIMessage("system", [string |-> prompt], <<>>,
                                       EmptyText)>>
                  ELSE <<>>
    IN  [built |-> TRUE, from |-> messages, parts |-> parts,
         Messages |-> system \o Concat(parts)]

besidesOpenAI == <<conversation, mcpManager, outside, wire, race, stream, waiting,
    further>>

(* the caller adds a message to the list of its next request *)
AppendMessage(msg) ==
    /\ Len(canonicalList) < MaxList
    /\ canonicalList' = Append(canonicalList, msg)
    /\ UNCHANGED <<openaiReq, besidesOpenAI>>

BuildOpenAIRequest(prompt) ==
    /\ openaiReq' = ToOpenAIRequest(prompt, canonicalList)
    /\ UNCHANGED <<canonicalList, besidesOpenAI>>

(* ids of 40 and of 41 characters, and an id that reads as the replacement of
   another one *)
LongIDs == {Txt("x", 41), Txt("y", 41)}

ToolCallIDs ==
    {Txt("s", 40)} \cup LongIDs \cup {Txt("call_", 5) \o Sum256Hex32(Txt("x", 41))}

ListMessages ==
    {Message(RoleUser, <<TextContent(Txt("t", 1))>>, <<>>)}
    \cup {Message(RoleAssistant, <<>>, <<ToolCall(id, "f", ObjectText(EmptyMap))>>) :
            id \in ToolCallIDs}
    \cup {Message(RoleTool, <<ToolResContent(Txt("r", 1), id)>>, <<>>) :
            id \in ToolCallIDs}

NextOpenAI ==
    \/ \E msg \in ListMessages : AppendMessage(msg)
    \/ \E prompt \in {EmptyText, Txt("p", 1)} : BuildOpenAIRequest(prompt)

OpenAISpec == Init /\ [][NextOpenAI]_vars

-----------------------------------------------------------------------------
(* A goroutine in AddMCPServer beside a goroutine in Chat *)

(* the fields of the ConversationManager written by registerMCPToolManually,
   in the order of its writes *)
RegistryFields == <<"registeredFuncs", "funcSchemas", "funcParamNames", "tools">>

Holds(who) == mu.writer = who \/ who \in mu.readers

Access(who, field, write) ==
    [who |-> who, field |-> field, write |-> write, locked |-> Holds(who)]

besidesRace == <<conversation, mcpManager, outside, adapters, stream, waiting,
    further>>

(* m.mu.Lock() of AddServer *)
AddServerLock ==
    /\ adding.at = "idle"
    /\ mu = Unlocked
    /\ mu' = [mu EXCEPT !.writer = "adder"]
    /\ adding' = [adding EXCEPT !.at = "locked"]
    /\ UNCHANGED <<chatting, accesses, besidesRace>>

(* the server is connected and lists n tools; AddServer returns right away
   when the server is known, cannot be connected or does not list *)
AddServerListTools(n) ==
    /\ adding.at = "locked"
    /\ adding' = [at    |-> IF n = 0 THEN "return" ELSE "register",
                  left  |-> n,
                  field |-> 1]
    /\ UNCHANGED <<mu, chatting, accesses, besidesRace>>

(* registerMCPToolManually begins one of its four writes *)
AddServerStartWrite ==
    /\ adding.at = "register"
    /\ adding' = [adding EXCEPT !.at = "writing"]
    /\ accesses' = accesses \cup {Access("adder", RegistryFields[adding.field], TRUE)}
    /\ UNCHANGED <<mu, chatting, besidesRace>>

(* the write is done: on to the next field, the next tool, or the return *)
AddServerEndWrite ==
    /\ adding.at = "writing"
    /\ accesses' = { a \in accesses : a.who # "adder" }
    /\ adding' = IF adding.field < Len(RegistryFields)
                 THEN [adding EXCEPT !.at = "register", !.field = @ + 1]
                 ELSE IF adding.left > 1
                      THEN [at |-> "register", left |-> adding.left - 1, field |-> 1]
                      ELSE [at |-> "return", left |-> 0, field |-> 1]
    /\ UNCHANGED <<mu, chatting, besidesRace>>

(* the deferred m.mu.Unlock() *)
AddServerUnlock ==
    /\ adding.at = "return"
    /\ mu' = [mu EXCEPT !.writer = ""]
    /\ adding' = NotAdding
    /\ UNCHANGED <<chatting, accesses, besidesRace>>

(* the registry field read at each position of Chat, and the position after *)
ReadAt ==
    [entered |-> [field |-> "tools",           then |-> "request"],
     call    |-> [field |-> "registeredFuncs", then |-> "found"],
     found   |-> [field |-> "funcParamNames",  then |-> "invoke"]]

(* Chat is called *)
ChatEnter ==
    /\ chatting = "idle"
    /\ chatting' = "entered"
    /\ UNCHANGED <<mu, adding, accesses, besidesRace>>

(* Chat copies cm.tools; CallRegisteredFunction looks the name up in
   cm.registeredFuncs, then in cm.funcParamNames: no lock is taken *)
ChatStartRead ==
    /\ chatting \in DOMAIN ReadAt
    /\ accesses' = accesses \cup {Access("chat", ReadAt[chatting].field, FALSE)}
    /\ chatting' = "reading_" \o chatting
    /\ UNCHANGED <<mu, adding, besidesRace>>

ChatEndRead ==
    /\ \E at \in DOMAIN ReadAt :
          /\ chatting = "reading_" \o at
          /\ chatting' = ReadAt[at].then
    /\ accesses' = { a \in accesses : a.who # "chat" }
    /\ UNCHANGED <<mu, adding, besidesRace>>

(* the provider answers with a tool call, or with none and Chat returns *)
ChatRound(hasToolCall) ==
    /\ chatting = "request"
    /\ chatting' = IF hasToolCall THEN "call" ELSE "idle"
    /\ UNCHANGED <<mu, adding, accesses, besidesRace>>

(* the function called is a native one *)
ChatInvokeNative ==
    /\ chatting = "invoke"
    /\ chatting' = "request"
    /\ UNCHANGED <<mu, adding, accesses, besidesRace>>

(* the function called is the proxy of an MCP tool: m.mu.RLock() of CallTool *)
ChatCallToolRLock ==
    /\ chatting = "invoke"
    /\ mu.writer = ""
    /\ mu' = [mu EXCEPT !.readers = @ \cup {"chat"}]
    /\ chatting' = "sessions"
    /\ UNCHANGED <<adding, accesses, besidesRace>>

(* m.mu.RUnlock() of CallTool, then the call of the tool *)
ChatCallToolRUnlock ==
    /\ chatting = "sessions"
    /\ mu' = [mu EXCEPT !.readers = @ \ {"chat"}]
    /\ chatting' = "request"
    /\ UNCHANGED <<adding, accesses, besidesRace>>

NextRace ==
    \/ AddServerLock
    \/ \E n \in 0..MaxTools : AddServerListTools(n)
    \/ AddServerStartWrite
    \/ AddServerEndWrite
    \/ AddServerUnlock
    \/ ChatEnter
    \/ ChatStartRead
    \/ ChatEndRead
    \/ \E hasToolCall \in BOOLEAN : ChatRound(hasToolCall)
    \/ ChatInvokeNative
    \/ ChatCallToolRLock
    \/ ChatCallToolRUnlock

RaceSpec == Init /\ [][NextRace]_vars

-----------------------------------------------------------------------------
(* A stream started with ChatStream (the clients' ChatStream and the
   wrappers of general) *)

besidesStream == <<conversation, mcpManager, outside, adapters, race, waiting,
    further>>

(* a JSON number, and a JSON string *)
JSONNumber(n) == [number |-> n]
JSONString(t) == [string |-> t]

(* the k-th chunk of the body as the scanner goroutine of the provider sends
   it on ch: OpenAIStreamResponse, DeepSeekStreamResponse and
   QwenStreamResponse with Created int64 and the text in choices[0].delta,
   GoogleStreamResponse with the text in candidates, AnthropicStreamEvent
   with the text in delta; as the JSON object json.Marshal makes of it *)
StreamChunk(provider, k) ==
    IF provider \in {"openai", "deepseek", "qwen"}
    THEN [id |-> "chunk", created |-> JSONNumber(k),
          choices |-> <<[index |-> 0, delta |-> Txt("delta", k)]>>]
    ELSE IF provider = "google"
    THEN [candidates |-> <<[index |-> 0, content |-> Txt("delta", k)]>>]
    ELSE [type |-> "content_block_delta", index |-> 0, delta |-> Txt("delta", k)]

(* json.Unmarshal into Choice: index and message; other keys are ignored *)
UnifiedChoice(choice) ==
    [Index   |-> IF "index" \in DOMAIN choice THEN choice.index ELSE 0,
     Message |-> IF "message" \in DOMAIN choice THEN choice.message
                 ELSE Message("", <<>>, <<>>)]

(* json.Marshal fails on a json.RawMessage that is not JSON *)
Marshals(resp) ==
    "choices" \in DOMAIN resp =>
        \A i \in 1..Len(resp.choices) :
            "message" \in DOMAIN resp.choices[i] =>
                \A k \in 1..Len(resp.choices[i].message.ToolCalls) :
                    resp.choices[i].message.ToolCalls[k].Arguments # "garbage"

(* json.Unmarshal into ChatResponse fails when created, a time.Time, is
   given a JSON number *)
Unmarshals(resp) ==
    "created" \in DOMAIN resp => "string" \in DOMAIN resp.created

(* convertToUnifiedResponse: the ChatResponse json.Unmarshal makes of the
   JSON text of resp, nil when resp is nil or either step fails *)
convertToUnifiedResponse(resp) ==
    IF resp = Nil \/ ~Marshals(resp) \/ ~Unmarshals(resp) THEN Nil
    ELSE [ID      |-> IF "id" \in DOMAIN resp THEN resp.id ELSE "",
          Choices |-> IF "choices" \in DOMAIN resp
                      THEN [i \in 1..Len(resp.choices) |->
                               UnifiedChoice(resp.choices[i])]
                      ELSE <<>>]

(* AgentManager.ChatStream: the request is answered with status 200, both
   channels are made and both goroutines started *)
ChatStream(provider) ==
    /\ scanner = "none"
    /\ scanner' = "scan"
    /\ forwarder' = "range"
    /\ streamProvider' = provider
    /\ UNCHANGED <<ctxDone, callerStopped, linesLeft, ch, unifiedCh, converted,
                   received, besidesStream>>

(* scanner.Scan() yields a data line with a response that parses *)
ScanLine ==
    /\ scanner = "scan"
    /\ linesLeft > 0
    /\ linesLeft' = linesLeft - 1
    /\ scanner' = "select"
    /\ UNCHANGED <<ctxDone, callerStopped, ch, unifiedCh, forwarder,
                   streamProvider, converted, received, besidesStream>>

(* the line is [DONE], or scanner.Scan() yields false: the body ended, or
   reading it failed as it does once ctx is cancelled; the deferred close(ch) *)
ScanEnd ==
    /\ scanner = "scan"
    /\ scanner' = "done"
    /\ ch' = [ch EXCEPT !.closed = TRUE]
    /\ UNCHANGED <<ctxDone, callerStopped, linesLeft, unifiedCh, forwarder,
                   streamProvider, converted, received, besidesStream>>

CanSendCh == Len(ch.buf) < ChCap

(* the data lines scanned so far *)
Scanned == MaxLines - linesLeft

(* select: case ch <- streamResp *)
ScannerSend ==
    /\ scanner = "select"
    /\ CanSendCh
    /\ ch' = [ch EXCEPT !.buf = Append(@, StreamChunk(streamProvider, Scanned))]
    /\ scanner' = "scan"
    /\ UNCHANGED <<ctxDone, callerStopped, linesLeft, unifiedCh, forwarder,
                   streamProvider, converted, received, besidesStream>>

(* select: case <-ctx.Done(): return, and the deferred close(ch) *)
ScannerCancelled ==
    /\ scanner = "select"
    /\ ctxDone
    /\ scanner' = "done"
    /\ ch' = [ch EXCEPT !.closed = TRUE]
    /\ UNCHANGED <<ctxDone, callerStopped, linesLeft, unifiedCh, forwarder,
                   streamProvider, converted, received, besidesStream>>

CanReceiveCh == Len(ch.buf) > 0

(* for resp := range ch; converted := convertToUnifiedResponse(resp);
   converted != nil *)
ForwardReceive ==
    /\ forwarder = "range"
    /\ CanReceiveCh
    /\ ch' = [ch EXCEPT !.buf = Tail(@)]
    /\ converted' = convertToUnifiedResponse(Head(ch.buf))
    /\ forwarder' = IF converted' # Nil THEN "send" ELSE "range"
    /\ UNCHANGED <<ctxDone, callerStopped, linesLeft, unifiedCh, scanner,
                   streamProvider, received, besidesStream>>

RangeEnded == Len(ch.buf) = 0 /\ ch.closed

(* the range ends on the closed and drained ch; the deferred close(unifiedCh) *)
ForwardEnd ==
    /\ forwarder = "range"
    /\ RangeEnded
    /\ forwarder' = "done"
    /\ unifiedCh' = [unifiedCh EXCEPT !.closed = TRUE]
    /\ UNCHANGED <<ctxDone, callerStopped, linesLeft, ch, scanner,
                   streamProvider, converted, received, besidesStream>>

CanSendUnifiedCh == Len(unifiedCh.buf) < UnifiedChCap

(* unifiedCh <- converted *)
ForwardSend ==
    /\ forwarder = "send"
    /\ CanSendUnifiedCh
    /\ unifiedCh' = [unifiedCh EXCEPT !.buf = Append(@, converted)]
    /\ forwarder' = "range"
    /\ UNCHANGED <<ctxDone, callerStopped, linesLeft, ch, scanner,
                   streamProvider, converted, received, besidesStream>>

(* the caller receives a value from the channel it was given *)
CallerReceive ==
    /\ scanner # "none"
    /\ ~callerStopped
    /\ Len(unifiedCh.buf) > 0
    /\ unifiedCh' = [unifiedCh EXCEPT !.buf = Tail(@)]
    /\ received' = Append(received, Head(unifiedCh.buf))
    /\ UNCHANGED <<ctxDone, callerStopped, linesLeft, ch, scanner, forwarder,
                   streamProvider, converted, besidesStream>>

(* the caller cancels ctx *)
CallerCancel ==
    /\ scanner # "none"
    /\ ~ctxDone
    /\ ctxDone' = TRUE
    /\ UNCHANGED <<callerStopped, linesLeft, ch, unifiedCh, scanner, forwarder,
                   streamProvider, converted, received, besidesStream>>

(* having cancelled, the caller receives no more *)
CallerStop ==
    /\ ctxDone
    /\ ~callerStopped
    /\ callerStopped' = TRUE
    /\ UNCHANGED <<ctxDone, linesLeft, ch, unifiedCh, scanner, forwarder,
                   streamProvider, converted, received, besidesStream>>

NextStream ==
    \/ \E provider \in Providers : ChatStream(provider)
    \/ ScanLine
    \/ ScanEnd
    \/ ScannerSend
    \/ ScannerCancelled
    \/ ForwardReceive
    \/ ForwardEnd
    \/ ForwardSend
    \/ CallerReceive
    \/ CallerCancel
    \/ CallerStop

StreamSpec == Init /\ [][NextStream]_vars

-----------------------------------------------------------------------------
(* A Chat call waiting for the functions it calls *)

besidesWaiting == <<conversation, mcpManager, outside, adapters, race, stream,
    further>>

(* Chat is called with a ctx that is not cancelled *)
WaitChatBegin ==
    /\ toolWait.at = "idle"
    /\ toolWait' = [NoWait EXCEPT !.at = "request"]
    /\ callerCtx' = FALSE
    /\ handled' = 0
    /\ UNCHANGED <<managerCtx, besidesWaiting>>

(* cm.manager.Chat(ctx, provider, req) answers with n tool calls; with none,
   Chat returns *)
WaitProviderRound(n) ==
    /\ toolWait.at = "request"
    /\ ~callerCtx
    /\ handled + n <= MaxToolCalls
    /\ toolWait' = [toolWait EXCEPT !.at = IF n = 0 THEN "idle" ELSE "chat",
                                    !.pending = n]
    /\ UNCHANGED <<callerCtx, managerCtx, handled, besidesWaiting>>

(* the request made with a cancelled ctx fails, and Chat returns the error *)
WaitRequestFails ==
    /\ toolWait.at = "request"
    /\ callerCtx
    /\ toolWait' = [toolWait EXCEPT !.at = "idle"]
    /\ UNCHANGED <<callerCtx, managerCtx, handled, besidesWaiting>>

(* the context a registered function waits with: a native function is called
   through reflect with its arguments and no context; the proxy of an MCP tool
   calls session.CallTool(m.ctx, ...) *)
ContextOf(kind) == IF kind = "mcp" THEN "m.ctx" ELSE "none"

Done(ctx) ==
    CASE ctx = "m.ctx"  -> managerCtx
      [] ctx = "caller" -> callerCtx
      [] OTHER          -> FALSE

(* HandleToolCall calls CallRegisteredFunction, which calls the function *)
ToolCallBegin(kind) ==
    /\ toolWait.at = "chat"
    /\ toolWait' = [toolWait EXCEPT !.at = "waiting", !.kind = kind,
                                    !.ctx = ContextOf(kind),
                                    !.cancelledDuring = FALSE, !.endedBy = ""]
    /\ UNCHANGED <<callerCtx, managerCtx, handled, besidesWaiting>>

(* the caller cancels the ctx it gave to Chat *)
CancelCallerCtx ==
    /\ toolWait.at \in {"request", "chat", "waiting"}
    /\ ~callerCtx
    /\ callerCtx' = TRUE
    /\ toolWait' = [toolWait EXCEPT !.cancelledDuring = (toolWait.at = "waiting")]
    /\ UNCHANGED <<managerCtx, handled, besidesWaiting>>

(* CloseMCP: m.cancel() *)
CloseMCP ==
    /\ ~managerCtx
    /\ managerCtx' = TRUE
    /\ UNCHANGED <<callerCtx, toolWait, handled, besidesWaiting>>

(* the tool call is handled: Chat goes on to the next tool call of the
   response, or to the next request *)
AfterToolCall(endedBy) ==
    [toolWait EXCEPT !.at = IF toolWait.pending > 1 THEN "chat" ELSE "request",
                     !.pending = @ - 1,
                     !.endedBy = endedBy]

(* the function returns, the MCP server answers *)
ToolAnswers ==
    /\ toolWait.at = "waiting"
    /\ toolWait' = AfterToolCall("answer")
    /\ handled' = handled + 1
    /\ UNCHANGED <<callerCtx, managerCtx, besidesWaiting>>

(* the wait can end on its context *)
CanAbortWait == toolWait.at = "waiting" /\ Done(toolWait.ctx)

(* session.CallTool returns the error of its cancelled context *)
ToolWaitAborted ==
    /\ CanAbortWait
    /\ toolWait' = AfterToolCall("cancel")
    /\ handled' = handled + 1
    /\ UNCHANGED <<callerCtx, managerCtx, besidesWaiting>>

NextWaiting ==
    \/ WaitChatBegin
    \/ \E n \in 0..MaxToolCalls : WaitProviderRound(n)
    \/ WaitRequestFails
    \/ \E kind \in {"native", "mcp"} : ToolCallBegin(kind)
    \/ CancelCallerCtx
    \/ CloseMCP
    \/ ToolAnswers
    \/ ToolWaitAborted

WaitingSpec == Init /\ [][NextWaiting]_vars

-----------------------------------------------------------------------------
(* Histories at the threshold of the truncation *)

(* limits with 0.80 * limit a whole number, and 1 *)
BoundaryLimits == {1, 5, 10, 2505}

(* a system prompt of 1 token *)
BoundaryPrompts == {EmptyText, Txt("S", 2)}

(* messages of 1, 4, 2004 and 1 tokens *)
BoundaryMessages ==
    { Message(RoleUser, <<TextContent(ShortUserText)>>, <<>>),
      Message(RoleUser, <<TextContent(Txt("U", 8))>>, <<>>),
      Message(RoleUser, <<TextContent(Txt("V", 4008))>>, <<>>),
      Message(RoleAssistant, <<TextContent(Txt("a", 2))>>, <<>>) }

NextBoundary ==
    \/ \E n \in BoundaryLimits : SetMaxHistoryTokens(n)
    \/ \E p \in BoundaryPrompts : SetSystemPrompt(p)
    \/ \E b \in BOOLEAN : EnableHistoryTruncation(b)
    \/ \E m \in BoundaryMessages : AddFullMessage(m)
    \/ ChatBegin(ShortUserText, 0)

BoundarySpec == Init /\ [][NextBoundary]_vars

-----------------------------------------------------------------------------
(* Histories produced by Chat calls, truncated on entry of the next one *)

(* a limit that leaves 60 tokens once the buffer of 500 is taken off *)
EntryLimits == {560}

(* Chat entered with a history produced by the calls before it *)
EntryChat(userMessage) ==
    /\ Len(history) <= MaxCalls
    /\ ChatBegin(userMessage, 0)

NextEntry ==
    \/ \E n \in EntryLimits : SetMaxHistoryTokens(n)
    \/ \E userMessage \in {ShortUserText, EmptyText} : EntryChat(userMessage)
    \/ ProviderRespond(<<>>)
    \/ ProviderFail

EntrySpec == Init /\ [][NextEntry]_vars

-----------------------------------------------------------------------------
(* Chat answered through the dispatcher: the client's Chat, the wrapper of
   general and AgentManager.Chat *)

(* the common response that FromOpenAIResponse (FromDeepSeekResponse and
   FromQwenResponse alike) makes of a vendor response whose message has the
   tool calls `calls`: Created is a time.Time, and the arguments are the
   vendor's string taken as a json.RawMessage *)
CommonResponse(calls) ==
    [id |-> "resp", created |-> JSONString("time"),
     choices |-> <<[index |-> 0, message |-> AssistantMessage(calls)]>>]

(* the Chat of a wrapper: the client's error, or the conversion of its
   response with a nil error *)
WrapperChat(clientRet) ==
    IF ~clientRet.err.nil THEN Dispatched(Nil, clientRet.err)
    ELSE Dispatched(convertToUnifiedResponse(clientRet.resp), NilErr)

(* AgentManager.Chat with a registered provider and a valid request *)
ManagerChat(clientRet) == WrapperChat(clientRet)

(* chat.go lines 86-100: resp is nil and err is nil; *cm.LastUsage =
   resp.Usage dereferences resp, the panic unwinds Chat and only the deferred
   function runs *)
NilResponse(out) ==
    /\ pc = "request"
    /\ out.err.nil /\ out.resp = Nil
    /\ requests' = requests + 1
    /\ dispatched' = out
    /\ history' = Deferred(FALSE, history)
    /\ pc' = "panicked"
    /\ UNCHANGED elsewhere
    /\ UNCHANGED <<config, historySnapshot, HistoryLength, functionCallCount,
                   shouldExit, stop_reason, toolCalls, tcIndex, ret, preHistory,
                   userContent, rounds, info_chan>>

(* the request of a round answered by the vendor with a response that
   parses, its message with the tool calls `calls` *)
VendorResponds(calls) ==
    LET out == ManagerChat(Dispatched(CommonResponse(calls), NilErr))
    IN  IF out.resp = Nil
        THEN NilResponse(out)
        ELSE /\ out.resp.Choices[1].Message = AssistantMessage(calls)
             /\ ProviderRespond(calls)

NextDispatch ==
    \/ \E f \in FunctionNames : RegisterNew(f, Func(1))
    \/ \E in \in UserInputs : ChatCall(in[1], in[2])
    \/ ProviderFail
    \/ \E calls \in ToolCallLists : VendorResponds(calls)
    \/ \E b \in Behaviours : ToolStep(b)

DispatchSpec == Init /\ [][NextDispatch]_vars

(* A Chat call whose provider requests and tool invocations all return: a
   step of the running call is taken whenever one can be *)
ChatSteps ==
    \/ ProviderFail
    \/ \E calls \in ToolCallLists : VendorResponds(calls)
    \/ \E b \in Behaviours : ToolStep(b)

NextTurn ==
    \/ \E n \in 0..MaxFnCap : SetMaxFunctionCallingNums(n)
    \/ NextDispatch

TurnSpec == Init /\ [][NextTurn]_vars /\ WF_vars(ChatSteps)

-----------------------------------------------------------------------------
(* The messages of a request to DeepSeek (deepseek/converter.go) *)

DeepSeekMessage(role, content, calls, toolCallID) ==
    [Role |-> role, Content |-> content, ToolCalls |-> calls,
     ToolCallID |-> toolCallID]

(* strings.Join(parts, sep) *)
RECURSIVE Join(_, _)
Join(parts, sep) ==
    IF parts = <<>> THEN EmptyText
    ELSE IF Len(parts) = 1 THEN Head(parts)
    ELSE Head(parts) \o sep \o Join(Tail(parts), sep)

(* lines 94-99: the texts of the text parts that are not empty *)
TextParts(content) ==
    LET texts == SelectSeq(content,
                     LAMBDA c : c.Type = ContentTypeText /\ c.Text # EmptyText)
    IN  [k \in 1..Len(texts) |-> texts[k].Text]

(* lines 100-111: the image parts; ImageContent carries an ImageURL *)
ImageContents(content) ==
    SelectSeq(content, LAMBDA c : c.Type = ContentTypeImageURL)

(* lines 112-121: a message of role tool for every tool_result that has a
   text and a tool id *)
DeepSeekToolMessages(content) ==
    LET results == SelectSeq(content,
                       LAMBDA c : /\ c.Type = ContentTypeToolRes
                                  /\ c.Text # EmptyText
                                  /\ c.ToolID # "")
    IN  [k \in 1..Len(results) |->
            DeepSeekMessage("tool", [string |-> results[k].Text], <<>>,
                            results[k].ToolID)]

(* "\n\n" *)
BlankLine == Txt("\\n\\n", 2)

(* lines 124-158: deepseekMsg.Content, and whether the system prompt was
   merged into it *)
MergedContent(msg, prompt, isFirstUserMessage) ==
    LET textParts == TextParts(msg.Content)
        images == ImageContents(msg.Content)
        merge == isFirstUserMessage /\ msg.Role = "user" /\ prompt # EmptyText
        joined == Join(textParts, Txt(" ", 1))
        textContent == IF merge THEN prompt \o BlankLine \o joined ELSE joined
    IN  IF Len(images) > 0
        THEN IF Len(textParts) > 0
             THEN [content |-> [array |-> <<TextContent(textContent)>> \o images],
                   merged |-> merge]
             ELSE [content |-> [array |-> images], merged |-> FALSE]
        ELSE IF Len(textParts) > 0
             THEN [content |-> [string |-> textContent], merged |-> merge]
             ELSE IF merge
             THEN [content |-> [string |-> prompt], merged |-> TRUE]
             ELSE [content |-> [string |-> EmptyText], merged |-> FALSE]

(* lines 163-186 *)
DeepSeekToolCall(toolCall) ==
    [ID        |-> toolCall.ID,
     Name      |-> toolCall.Name,
     Arguments |-> ToDeepSeekArguments(toolCall.Arguments)]

(* lines 81-203: one iteration of the loop over commonReq.Messages: the
   messages it appends to deepseekReq.Messages and isFirstUserMessage after it *)
DeepSeekConvert(msg, prompt, isFirstUserMessage) ==
    LET toolMessages == DeepSeekToolMessages(msg.Content)
        hasToolResult == Len(toolMessages) > 0
        hasOtherContent ==
            \E k \in 1..Len(msg.Content) : msg.Content[k].Type # ContentTypeToolRes
        c == MergedContent(msg, prompt, isFirstUserMessage)
        deepseekMsg ==
            DeepSeekMessage(msg.Role, c.content,
                            [k \in 1..Len(msg.ToolCalls) |->
                                DeepSeekToolCall(msg.ToolCalls[k])],
                            EmptyText)
    IN  [messages |-> IF hasToolResult /\ ~hasOtherContent /\ Len(msg.ToolCalls) = 0
                      THEN toolMessages
                      ELSE toolMessages \o <<deepseekMsg>>,
         isFirstUserMessage |-> isFirstUserMessage /\ ~c.merged]

(* lines 80-204: the loop from the i-th message on *)
RECURSIVE DeepSeekLoop(_, _, _, _)
DeepSeekLoop(messages, prompt, i, isFirstUserMessage) ==
    IF i > Len(messages) THEN <<>>
    ELSE LET r == DeepSeekConvert(messages[i], prompt, isFirstUserMessage)
         IN  <<r.messages>>
             \o DeepSeekLoop(messages, prompt, i + 1, r.isFirstUserMessage)

(* the record of a conversion: the system prompt and the list given, what
   each message of the list became, and deepseekReq.Messages *)
ToDeepSeekRequest(prompt, messages) ==
    LET parts == DeepSeekLoop(messages, prompt, 1, TRUE)
    IN  [built |-> TRUE, prompt |-> prompt, from |-> messages, parts |-> parts,
         Messages |-> Concat(parts)]

besidesDeepSeek == <<conversation, mcpManager, outside, earlier, googleSide>>

BuildDeepSeekRequest(prompt) ==
    /\ deepseekReq' = ToDeepSeekRequest(prompt, canonicalList)
    /\ UNCHANGED besidesDeepSeek

(* user messages with text, with images only and with both; the other roles *)
DeepSeekList ==
    { Message(RoleUser, <<TextContent(Txt("t", 1))>>, <<>>),
      Message(RoleUser, <<ImageContent>>, <<>>),
      Message(RoleUser, <<TextContent(Txt("t", 1)), ImageContent>>, <<>>),
      Message(RoleAssistant, <<TextContent(Txt("a", 1))>>, <<>>),
      Message(RoleAssistant, <<>>, <<ToolCall("c1", "f", ObjectText(EmptyMap))>>),
      Message(RoleTool, <<ToolResContent(Txt("r", 1), "c1")>>, <<>>) }

NextDeepSeek ==
    \/ \E msg \in DeepSeekList : AppendMessage(msg)
    \/ \E prompt \in {EmptyText, Txt("p", 1)} : BuildDeepSeekRequest(prompt)

DeepSeekSpec == Init /\ [][NextDeepSeek]_vars

-----------------------------------------------------------------------------
(* A conversation with Google (google/converter.go): the ids minted for the
   function calls of a response, and the request built from the history *)

(* fmt.Sprintf("call_%d", nanos) *)
CallID(nanos) == "call_" \o ToString(nanos)

(* a content part of type tool_call *)
ToolCallContent(toolCall) ==
    [Type |-> "tool_call", Text |-> EmptyText, ToolID |-> "", ToolCall |-> toolCall]

(* lines 337-396: the tool call made of a functionCall part, with the id
   minted from the clock as read at that part *)
MintedCall(name, nanos) == ToolCall(CallID(nanos), name, MarshalMap(EmptyMap))

(* the clock as read at the k-th functionCall part: reads[j] tells whether
   the clock has moved on since the part before *)
RECURSIVE ReadAtPart(_, _, _)
ReadAtPart(start, reads, k) ==
    IF k = 0 THEN start ELSE ReadAtPart(start, reads, k - 1) + reads[k]

(* lines 282-400: choice.Message of a candidate whose parts are functionCall
   parts with these names *)
GoogleChoiceMessage(names, start, reads) ==
    LET calls == [k \in 1..Len(names) |->
                     MintedCall(names[k], ReadAtPart(start, reads, k))]
    IN  Message(RoleAssistant,
                [k \in 1..Len(names) |-> ToolCallContent(calls[k])],
                calls)

(* lines 92-97: toolCallMap after the calls from the i-th on are entered *)
RECURSIVE ToolCallMapLoop(_, _, _)
ToolCallMapLoop(calls, i, map) ==
    IF i > Len(calls) THEN map
    ELSE ToolCallMapLoop(calls, i + 1, Put(map, calls[i].ID, calls[i].Name))

(* lines 92-97: toolCallMap *)
ToolCallMap(messages) ==
    ToolCallMapLoop(Concat([i \in 1..Len(messages) |-> messages[i].ToolCalls]),
                    1, EmptyMap)

(* lines 167-171: functionName *)
FunctionName(toolCallMap, toolID) ==
    IF toolID \notin DOMAIN toolCallMap \/ toolCallMap[toolID] = ""
    THEN "unknown_function"
    ELSE toolCallMap[toolID]

GoogleFunctionCall(toolCall) ==
    [FunctionCall |-> [Name |-> toolCall.Name,
                       Args |-> UnmarshalMap(toolCall.Arguments)]]

(* lines 115-180: the parts made of one content part (none for an image
   that is not a data URL) *)
GoogleParts(content, toolCallMap) ==
    IF content.Type = ContentTypeText THEN <<[Text |-> content.Text]>>
    ELSE IF content.Type = ContentTypeImageURL THEN <<[InlineData |-> "image/png"]>>
    ELSE IF content.Type = "tool_call" THEN <<GoogleFunctionCall(content.ToolCall)>>
    ELSE IF content.Type = ContentTypeToolRes
    THEN <<[FunctionResponse |->
              [Name     |-> FunctionName(toolCallMap, content.ToolID),
               Response |-> IF content.Text # EmptyText
                            THEN [result |-> content.Text] ELSE EmptyMap]]>>
    ELSE <<>>

(* lines 100-208: the GoogleContent made of one message *)
GoogleContent(msg, toolCallMap) ==
    LET hasToolCallContent ==
            \E k \in 1..Len(msg.Content) : msg.Content[k].Type = "tool_call"
    IN  [Role  |-> IF msg.Role = RoleAssistant THEN "model" ELSE msg.Role,
         Parts |-> Concat([k \in 1..Len(msg.Content) |->
                              GoogleParts(msg.Content[k], toolCallMap)])
                   \o IF hasToolCallContent THEN <<>>
                      ELSE [k \in 1..Len(msg.ToolCalls) |->
                               GoogleFunctionCall(msg.ToolCalls[k])]]

(* the record of a conversion: the list given and googleReq.Contents (no
   message of the list has the role system) *)
ToGoogleRequest(messages) ==
    LET toolCallMap == ToolCallMap(messages)
    IN  [built |-> TRUE, from |-> messages,
         Contents |-> [i \in 1..Len(messages) |->
                          GoogleContent(messages[i], toolCallMap)]]

besidesGoogle == <<conversation, mcpManager, outside, earlier, deepseekSide>>

(* the tool calls of the last assistant message that have no result yet *)
Unanswered ==
    IF googleList = <<>> THEN <<>>
    ELSE LET last == CHOOSE i \in 0..Len(googleList) :
                        /\ i > 0 => googleList[i].Role = RoleAssistant
                        /\ \A j \in (i + 1)..Len(googleList) :
                              googleList[j].Role # RoleAssistant
         IN  IF last = 0 THEN <<>>
             ELSE SubSeq(googleList[last].ToolCalls,
                         Len(googleList) - last + 1,
                         Len(googleList[last].ToolCalls))

(* Chat with the Google provider, first round: the user message is appended *)
GoogleUser ==
    /\ googleList = <<>>
    /\ googleList' = <<Message(RoleUser, <<TextContent(Txt("t", 1))>>, <<>>)>>
    /\ UNCHANGED <<clock, googleReq, besidesGoogle>>

(* Chat with the Google provider: a response with functionCall parts is
   converted by FromGoogleResponse and its message appended to the history;
   the clock moves on before the next response is there *)
GoogleRespond(names, reads) ==
    /\ googleList # <<>>
    /\ Unanswered = <<>>
    /\ Len(googleList) + 1 + Len(names) <= MaxLen
    /\ ReadAtPart(clock, reads, Len(names)) < MaxClock
    /\ googleList' = Append(googleList, GoogleChoiceMessage(names, clock, reads))
    /\ clock' = ReadAtPart(clock, reads, Len(names)) + 1
    /\ UNCHANGED <<googleReq, besidesGoogle>>

(* HandleToolCall: the result of the function named by the call, which
   returns its own name, is appended under the id of the call *)
GoogleToolResult ==
    /\ Unanswered # <<>>
    /\ LET toolCall == Head(Unanswered)
       IN  googleList' = AddMessage(googleList, RoleTool,
                             <<ToolResContent(Txt(toolCall.Name, 1), toolCall.ID)>>)
    /\ UNCHANGED <<clock, googleReq, besidesGoogle>>

(* the request of the next round *)
BuildGoogleRequest ==
    /\ Unanswered = <<>>
    /\ googleReq' = ToGoogleRequest(googleList)
    /\ UNCHANGED <<clock, googleList, besidesGoogle>>

(* the names of the functionCall parts of a response *)
GoogleCallNames == UNION { [1..n -> {"f", "g"}] : n \in 1..MaxToolCalls }

NextGoogle ==
    \/ GoogleUser
    \/ \E names \in GoogleCallNames :
          \E reads \in [1..Len(names) -> {0, 1}] : GoogleRespond(names, reads)
    \/ GoogleToolResult
    \/ BuildGoogleRequest

GoogleSpec == Init /\ [][NextGoogle]_vars

-----------------------------------------------------------------------------
(* Auxiliary definitions of the properties *)

RECURSIVE AllOutcomes(_)
AllOutcomes(rs) ==
    IF rs = <<>> THEN <<>> ELSE Head(rs).outcomes \o AllOutcomes(Tail(rs))

(* tool calls whose registered function was reached by HandleToolCall *)
Executed(rs) == SelectSeq(AllOutcomes(rs), LAMBDA o : o.cause # "unknown")

Executions == Len(Executed(rounds))

Running == pc \in {"request", "tools"}

Failed == pc = "done" /\ ret.returned /\ ~ret.err.nil

Succeeded == pc = "done" /\ ret.returned /\ ret.err.nil

-----------------------------------------------------------------------------
(* C1, as stated: after a Chat call that returned an error the history is the
   history the call was entered with, before the entry-time truncation. *)
C1_RollbackToPreCall == Failed => history = preHistory

(* C1, amended: a Chat call that returns an error leaves as history the
   truncation, made on entry, of the history it was entered with. *)
C1_RollbackToTruncated == Failed => history = truncateHistory(preHistory)

(* a call failed after it had appended the user message, an assistant message
   and a tool result, and its entry-time truncation had dropped messages *)
C1_Witness ==
    /\ Failed
    /\ Len(Executed(rounds)) >= 1
    /\ userContent # <<>>
    /\ Len(history) < Len(preHistory)

-----------------------------------------------------------------------------
(* Pairing of tool calls and tool results *)

NoUserBetween(h, i, j) == \A k \in (i + 1)..(j - 1) : h[k].Role # RoleUser

CarriesResult(msg, id) ==
    /\ msg.Role = RoleTool
    /\ \E c \in 1..Len(msg.Content) :
          msg.Content[c].Type = ContentTypeToolRes /\ msg.Content[c].ToolID = id

CarriesCall(msg, id) ==
    /\ msg.Role = RoleAssistant
    /\ \E t \in 1..Len(msg.ToolCalls) : msg.ToolCalls[t].ID = id

(* the tool call id of the assistant message h[i] is answered later in h,
   before the next user message *)
HasResult(h, i, id) ==
    \E j \in (i + 1)..Len(h) : CarriesResult(h[j], id) /\ NoUserBetween(h, i, j)

(* the tool result id of the tool message h[j] answers a call made earlier in
   h, after the last user message *)
HasCall(h, j, id) ==
    \E i \in 1..(j - 1) : CarriesCall(h[i], id) /\ NoUserBetween(h, i, j)

CallsAnswered(h) ==
    \A i \in 1..Len(h) :
        h[i].Role = RoleAssistant =>
            \A t \in 1..Len(h[i].ToolCalls) : HasResult(h, i, h[i].ToolCalls[t].ID)

(* C2: with MaxFunctionCallingNums >= 0, after a successful Chat call every
   tool call id of an assistant message of the history has a tool_result with
   that id later in the history and before the next user message. *)
C2_CallsAnswered ==
    (Succeeded /\ MaxFunctionCallingNums >= 0) => CallsAnswered(history)

-----------------------------------------------------------------------------
WithinBudget ==
    /\ Executions <= MaxFunctionCallingNums + 1
    /\ (pc = "done" /\ ret.returned) =>
          (ret.reason = "max_function_calling_nums"
              <=> Executions = MaxFunctionCallingNums + 1)
    /\ pc = "request" => Executions <= MaxFunctionCallingNums

(* C3, as stated: one Chat call executes at most MaxFunctionCallingNums + 1
   tool calls; it returns "max_function_calling_nums" exactly when it has
   executed that many; and once it has, it makes no further provider request. *)
C3_Budget == WithinBudget

(* C3, amended: the same, for a MaxFunctionCallingNums that is not negative. *)
C3_BudgetNonNegative == MaxFunctionCallingNums >= 0 => WithinBudget

(* a call with MaxFunctionCallingNums = 1 ended by its second tool execution *)
C3_Witness ==
    /\ Succeeded
    /\ MaxFunctionCallingNums = 1
    /\ Executions = 2
    /\ ret.reason = "max_function_calling_nums"

-----------------------------------------------------------------------------
(* The messages a Chat call has appended, told from its inputs and from the
   log of its rounds *)

UserPart(content) ==
    IF Len(content) > 0 THEN <<Message(RoleUser, content, <<>>)>> ELSE <<>>

ToolMessage(o) == Message(RoleTool, <<ToolResContent(o.Text, o.ID)>>, <<>>)

Answered(outcomes) ==
    SelectSeq(outcomes, LAMBDA o : o.cause \notin {"unknown", "panics"})

RECURSIVE RoundMessages(_)
RoundMessages(rs) ==
    IF rs = <<>> THEN <<>>
    ELSE LET done == Answered(Head(rs).outcomes)
         IN  <<Head(rs).resp>> \o [j \in 1..Len(done) |-> ToolMessage(done[j])]
                \o RoundMessages(Tail(rs))

DeclarationOrder(rs) ==
    \A r \in 1..Len(rs) :
        /\ Len(rs[r].outcomes) <= Len(rs[r].resp.ToolCalls)
        /\ \A j \in 1..Len(rs[r].outcomes) :
              rs[r].outcomes[j].ID = rs[r].resp.ToolCalls[j].ID

(* C7: after a successful Chat call the history is the entry-time truncated
   history followed by the user message (when the call had content), then per
   round the assistant message and one tool_result per executed tool call, in
   the order of the assistant message's tool calls. *)
C7_AppendedInOrder ==
    Succeeded =>
        /\ history = truncateHistory(preHistory)
                        \o UserPart(userContent) \o RoundMessages(rounds)
        /\ DeclarationOrder(rounds)
        /\ ret.messages = UserPart(userContent) \o RoundMessages(rounds)

(* a successful call that kept a history, appended a user message and executed
   two tool calls of one assistant message *)
C7_Witness ==
    /\ Succeeded
    /\ truncateHistory(preHistory) # <<>>
    /\ userContent # <<>>
    /\ \E r \in 1..Len(rounds) :
          /\ Len(Answered(rounds[r].outcomes)) = 2
          /\ rounds[r].outcomes[1].ID # rounds[r].outcomes[2].ID

-----------------------------------------------------------------------------
(* C8: Chat returns finish reason "error" with every non-nil error, and
   "success" or "max_function_calling_nums" with a nil error. *)
C8_FinishReasons ==
    (pc = "done" /\ ret.returned) =>
        IF ~ret.err.nil
        THEN ret.reason = "error"
        ELSE ret.reason \in {"success", "max_function_calling_nums"}

-----------------------------------------------------------------------------
ToolErrorCauses == {"parse_error", "convert_error", "returns_error"}

LastOutcome(rs) == LET os == AllOutcomes(rs) IN os[Len(os)]

(* the tool call just handled *)
Handled == pc = "tools" /\ Len(AllOutcomes(rounds')) = Len(AllOutcomes(rounds)) + 1

(* history' is history with one tool_result for the call being handled whose
   text begins with the execution-error prefix *)
ErrorResultAppended ==
    /\ Len(history') = Len(history) + 1
    /\ SubSeq(history', 1, Len(history)) = history
    /\ LET m == history'[Len(history')]
       IN  /\ m.Role = RoleTool
           /\ Len(m.Content) = 1
           /\ m.Content[1].Type = ContentTypeToolRes
           /\ m.Content[1].ToolID = toolCalls[tcIndex].ID
           /\ HasPrefix(m.Content[1].Text, PrefixExecError)

(* Chat goes on as after any executed tool call: to the next tool call of the
   response, to the next provider round, or, the budget being exceeded, to its
   return without error *)
GoesOn ==
    IF functionCallCount' > MaxFunctionCallingNums
    THEN pc' = "done" /\ ret'.err.nil /\ ret'.reason = "max_function_calling_nums"
    ELSE IF tcIndex < Len(toolCalls)
    THEN pc' = "tools" /\ tcIndex' = tcIndex + 1
    ELSE pc' = "request"

(* C9: when the registered function returns a non-nil error, or the arguments
   cannot be parsed or converted, Chat does not fail: a tool message with the
   call's id and a text beginning with the execution-error prefix is appended
   and the loop goes on. *)
C9_ToolErrorBecomesResult ==
    [][(Handled /\ LastOutcome(rounds').cause \in ToolErrorCauses)
          => (ErrorResultAppended /\ GoesOn)]_vars

(* after a tool call that ended in an error, Chat is about to make the next
   provider request *)
C9_Witness ==
    /\ pc = "request"
    /\ AllOutcomes(rounds) # <<>>
    /\ LastOutcome(rounds).cause \in ToolErrorCauses
    /\ CarriesResult(history[Len(history)], LastOutcome(rounds).ID)

-----------------------------------------------------------------------------
(* C10: a panic of the registered function is caught: a tool_result with the
   execution-error text is appended for the call and Chat goes on and
   returns normally. *)
C10_PanicCaught ==
    (AllOutcomes(rounds) # <<>> /\ LastOutcome(rounds).cause = "panics") =>
        /\ pc # "panicked"
        /\ history # <<>>
        /\ CarriesResult(history[Len(history)], LastOutcome(rounds).ID)
        /\ HasPrefix(history[Len(history)].Content[1].Text, PrefixExecError)

-----------------------------------------------------------------------------
(* Truncation, looked at right after the entry of Chat: preHistory is the
   history H given to truncateHistory and historySnapshot is its result *)

Truncated == pc = "request"

IsSuffix(t, h) ==
    /\ Len(t) <= Len(h)
    /\ t = SubSeq(h, Len(h) - Len(t) + 1, Len(h))

(* every tool_result kept in t that answered a call in h still does so in t *)
ResultsKeepCalls(h, t) ==
    LET off == Len(h) - Len(t)
    IN  \A j \in 1..Len(t) :
            \A c \in 1..Len(t[j].Content) :
                (/\ t[j].Role = RoleTool
                 /\ t[j].Content[c].Type = ContentTypeToolRes
                 /\ HasCall(h, j + off, t[j].Content[c].ToolID))
                    => HasCall(t, j, t[j].Content[c].ToolID)

(* C4: when every tool call of H is answered before the next user message,
   the same holds of truncateHistory(H), and no tool_result kept has lost the
   assistant tool call it answered. *)
C4_TruncationKeepsPairs ==
    (Truncated /\ CallsAnswered(preHistory)) =>
        /\ CallsAnswered(historySnapshot)
        /\ ResultsKeepCalls(preHistory, historySnapshot)

(* a truncation that dropped messages and kept a tool call with its result *)
C4_Witness ==
    /\ Truncated
    /\ CallsAnswered(preHistory)
    /\ Len(historySnapshot) < Len(preHistory)
    /\ \E i \in 1..Len(historySnapshot) :
          /\ hasToolCalls(historySnapshot[i])
          /\ HasResult(historySnapshot, i, historySnapshot[i].ToolCalls[1].ID)

(* C5: truncateHistory(H) is a suffix of H. *)
C5_TruncationIsSuffix == Truncated => IsSuffix(historySnapshot, preHistory)

(* a truncation that dropped some messages and kept others *)
C5_Witness ==
    /\ Truncated
    /\ 0 < Len(historySnapshot)
    /\ Len(historySnapshot) < Len(preHistory)

(* C6, as stated: with truncation enabled, a non-empty truncateHistory(H)
   begins with a user message. *)
C6_FirstIsUser ==
    (Truncated /\ EnableTruncation /\ historySnapshot # <<>>) =>
        historySnapshot[1].Role = RoleUser

(* C6, amended: with truncation enabled, a non-empty truncateHistory(H) that
   has dropped a message of H begins with a user message. *)
C6_FirstIsUserWhenCut ==
    (Truncated /\ EnableTruncation /\ historySnapshot # <<>>
        /\ historySnapshot # preHistory) =>
        historySnapshot[1].Role = RoleUser

(* a truncation of a history that begins with an assistant message, with a
   non-empty result *)
C6_Witness ==
    /\ Truncated
    /\ EnableTruncation
    /\ historySnapshot # <<>>
    /\ historySnapshot # preHistory
    /\ preHistory[1].Role = RoleAssistant

-----------------------------------------------------------------------------
(* C11: a tool call whose function name is not registered makes Chat return
   an error: it is the last tool call the Chat call handles, the history holds
   no tool_result for it but those it held on entry for a call of that id, and
   the history is the snapshot taken on entry, without the messages the call
   had appended (tool results of earlier tool calls of the turn included). *)
C11_UnknownToolFailsTurn ==
    LET os == AllOutcomes(rounds)
    IN  \A i \in 1..Len(os) :
            os[i].cause = "unknown" =>
                /\ i = Len(os)
                /\ Failed
                /\ history = historySnapshot
                /\ history = truncateHistory(preHistory)
                /\ \A k \in 1..Len(history) :
                      CarriesResult(history[k], os[i].ID) =>
                          \E j \in 1..Len(preHistory) : preHistory[j] = history[k]

(* a call that had appended the user message, the assistant message and the
   tool result of an earlier tool call of the turn when it met the unknown
   name *)
C11_Witness ==
    /\ Failed
    /\ userContent # <<>>
    /\ Len(rounds) = 1
    /\ Len(rounds[1].outcomes) = 2
    /\ rounds[1].outcomes[1].cause = "returns"
    /\ rounds[1].outcomes[2].cause = "unknown"
    /\ history = historySnapshot

-----------------------------------------------------------------------------
(* chat.go lines 65-66, 79: the tools of a provider request *)
RequestTools == tools

(* C12: after any sequence of registrations, modifications, and additions and
   removals of MCP servers, the tool list sent to the provider holds at most
   one definition per tool name, and each name of the list resolves to one
   callable. *)
C12_OneDefinitionPerName ==
    /\ \A i, j \in 1..Len(RequestTools) :
          RequestTools[i].Name = RequestTools[j].Name => i = j
    /\ \A i \in 1..Len(RequestTools) :
          RequestTools[i].Name \in DOMAIN registeredFuncs

-----------------------------------------------------------------------------
(* C13: the name-keyed map that the invocation of an MCP tool with a JSON
   object hands to session.CallTool binds every required parameter name of the
   tool's schema, and to the value the object has under that name. *)
C13_RequiredBoundByName ==
    (callToolLog.called /\ callToolLog.call.reached) =>
        \A r \in Range(callToolLog.schema.Required) :
            /\ r \in DOMAIN callToolLog.call.Arguments
            /\ r \in DOMAIN callToolLog.params =>
                  callToolLog.call.Arguments[r] = callToolLog.params[r]

-----------------------------------------------------------------------------
(* C19: loading an MCP configuration that is read, parsed and found valid,
   from a file or from bytes, attempts to connect every server the
   configuration lists in its servers array and in its mcpServers object,
   whatever became of the earlier ones, and returns an error exactly when it
   lists a server and every attempt failed. *)
C19_LoadConnectsAll ==
    (loadLog.loaded /\ loadLog.valid) =>
        /\ Range(loadLog.attempted) = loadLog.listed
        /\ loadLog.failed <=> (loadLog.listed # {} /\ loadLog.successCount = 0)

(* C14: a tool call whose arguments are the object V in the response of one
   provider is sent to any provider, in a later request, with arguments that
   denote V in that provider's form: the JSON string of V's text for OpenAI,
   DeepSeek and Qwen, the object V for Anthropic and Google. *)
C14_SameArgumentsSent ==
    sentCall.sent =>
        sentCall.arguments = VendorArguments(sentCall.to, storedCall.object)

(* the canonical id and the emitted id of every tool call of an assistant
   message, and of every tool message, of the request built last *)
CallPairs ==
    { <<openaiReq.from[i].ToolCalls[k].ID, openaiReq.parts[i][1].ToolCalls[k].ID>> :
        <<i, k>> \in { p \in (1..Len(openaiReq.from)) \X (1..MaxToolCalls) :
                          p[2] <= Len(openaiReq.from[p[1]].ToolCalls) } }

ResultPairs ==
    { <<openaiReq.from[i].Content[1].ToolID, openaiReq.parts[i][1].ToolCallID>> :
        i \in { j \in 1..Len(openaiReq.from) : openaiReq.from[j].Role = RoleTool } }

(* ids of at most 40 characters are emitted unchanged, longer ones as an id of
   37 characters, and equal ids as equal ids *)
SameMapping ==
    /\ \A p \in CallPairs \cup ResultPairs :
          /\ RuneCount(p[1]) <= 40 => p[2] = p[1]
          /\ RuneCount(p[1]) > 40 => RuneCount(p[2]) = 37
    /\ \A p, q \in CallPairs \cup ResultPairs : p[1] = q[1] => p[2] = q[2]

(* C15, as stated: in the OpenAI request ids of at most 40 characters are
   emitted unchanged and longer ones replaced by an id of 37 characters, the
   same for tool calls and for tool messages, and the tool_call_id of a tool
   message equals the emitted id of a tool call exactly when their canonical
   ids are equal. *)
C15_IdsMatchExactly ==
    openaiReq.built =>
        /\ SameMapping
        /\ \A c \in CallPairs, r \in ResultPairs : r[2] = c[2] <=> r[1] = c[1]

(* C15, amended: the same mapping, and the emitted ids of a tool message and
   of a tool call are equal whenever their canonical ids are equal, and only
   then when both canonical ids are longer than 40 characters or neither is. *)
C15_IdsMatchWithinClass ==
    openaiReq.built =>
        /\ SameMapping
        /\ \A c \in CallPairs, r \in ResultPairs :
              /\ r[1] = c[1] => r[2] = c[2]
              /\ (RuneCount(r[1]) > 40 <=> RuneCount(c[1]) > 40) =>
                    (r[2] = c[2] => r[1] = c[1])

(* a request with a tool call of a 41-character id and the tool message that
   answers it, found by its 37-character id *)
C15_Witness ==
    /\ openaiReq.built
    /\ \E c \in CallPairs, r \in ResultPairs :
          /\ RuneCount(c[1]) > 40
          /\ r[1] = c[1]
          /\ r[2] = c[2]
          /\ RuneCount(c[2]) = 37

(* C16: while Chat runs beside AddMCPServer, no read of a registry field
   (registeredFuncs, funcParamNames, tools) overlaps a write of that field,
   both being made under a common lock. *)
C16_NoReadOverlapsWrite ==
    \A r, w \in accesses : ~(~r.write /\ w.write /\ r.field = w.field)

(* what each goroutine of the stream waits for is there *)
ScannerCanStep ==
    \/ scanner = "scan"
    \/ scanner = "select" /\ (CanSendCh \/ ctxDone)

ForwarderCanStep ==
    \/ forwarder = "range" /\ (CanReceiveCh \/ RangeEnded)
    \/ forwarder = "send" /\ CanSendUnifiedCh

StreamEnded == scanner = "done" /\ forwarder = "done" /\ unifiedCh.closed

(* C17: once the caller has cancelled ctx and receives no more, the stream
   goes on to its end: as long as the scanner goroutine or the forwarding
   goroutine has not terminated, or the returned channel is not closed, one of
   the two goroutines can take its next step. *)
C17_StreamNotStuck ==
    (scanner # "none" /\ ctxDone /\ callerStopped /\ ~StreamEnded)
        => (ScannerCanStep \/ ForwarderCanStep)

(* C18: when the ctx given to Chat is cancelled while Chat waits for a tool
   call, the wait can end on the cancellation: it does not have to last until
   the function returns or the MCP server answers. *)
C18_CancelAbortsWait ==
    (toolWait.at = "waiting" /\ callerCtx) => CanAbortWait

(* the estimated tokens of the history given to truncateHistory, with those of
   the system prompt *)
TotalTokens == CalculateUnitTokens(preHistory) + CalculateTokens(systemPrompt)

(* C20, as stated: with truncation enabled and MaxHistoryTokens >= 1, a
   history whose tokens with those of the system prompt are exactly 0.80 *
   MaxHistoryTokens is returned unchanged by truncateHistory, and one of 0.80 *
   MaxHistoryTokens + 1 tokens loses at least one message. *)
C20_TruncatesAboveThreshold ==
    (Truncated /\ EnableTruncation /\ MaxHistoryTokens >= 1) =>
        /\ 5 * TotalTokens = 4 * MaxHistoryTokens => historySnapshot = preHistory
        /\ 5 * (TotalTokens - 1) = 4 * MaxHistoryTokens =>
              Len(historySnapshot) < Len(preHistory)

(* C20, amended: a history of exactly 0.80 * MaxHistoryTokens tokens is
   returned unchanged; a history of 0.80 * MaxHistoryTokens + 1 tokens that
   has messages is returned empty when MaxHistoryTokens less the tokens of the
   system prompt less 500 is not positive, and otherwise as one of its
   suffixes, which may be the whole history. *)
C20_ThresholdThenBudget ==
    (Truncated /\ EnableTruncation /\ MaxHistoryTokens >= 1) =>
        /\ 5 * TotalTokens = 4 * MaxHistoryTokens => historySnapshot = preHistory
        /\ (5 * (TotalTokens - 1) = 4 * MaxHistoryTokens /\ preHistory # <<>>) =>
              /\ AvailableTokens <= 0 => historySnapshot = <<>>
              /\ AvailableTokens > 0 => IsSuffix(historySnapshot, preHistory)

(* a history of 0.80 * MaxHistoryTokens + 1 tokens, tokens of the system
   prompt among them, that truncateHistory returned empty *)
C20_Witness ==
    /\ Truncated
    /\ EnableTruncation
    /\ MaxHistoryTokens >= 1
    /\ 5 * (TotalTokens - 1) = 4 * MaxHistoryTokens
    /\ CalculateTokens(systemPrompt) > 0
    /\ Len(preHistory) > 1
    /\ historySnapshot = <<>>

-----------------------------------------------------------------------------
(* C21: a Chat call with user text, no registered tool and one assistant
   text message from the provider *)

(* the call returned without error after one provider round whose message
   has no tool call; the user gave text and no tool is registered *)
PlainTurn ==
    /\ pc = "done"
    /\ ret.returned
    /\ ret.err.nil
    /\ Len(userContent) > 0
    /\ userContent[1].Type = ContentTypeText
    /\ tools = <<>>
    /\ Len(rounds) = 1
    /\ rounds[1].resp.ToolCalls = <<>>

(* C21, as stated: in that case the list returned by Chat is the assistant
   message alone, without the message of the user, and the history is 2
   messages longer than it was when Chat was called *)
C21_ReturnsAssistantOnly ==
    PlainTurn =>
        /\ ret.messages = <<rounds[1].resp>>
        /\ Len(history) = Len(preHistory) + 2

(* C21, amended: in that case the list returned by Chat is the message of the
   user followed by the assistant message, and the history is the history as
   truncated on entry followed by these 2 messages *)
C21_ReturnsUserThenAssistant ==
    PlainTurn =>
        /\ ret.messages = <<Message(RoleUser, userContent, <<>>), rounds[1].resp>>
        /\ history = historySnapshot \o ret.messages
        /\ Len(history) = HistoryLength + 2

(* such a call, made on a history that was not empty *)
C21_Witness ==
    /\ PlainTurn
    /\ Len(preHistory) > 0
    /\ Len(ret.messages) = 2

-----------------------------------------------------------------------------
(* C22: the system prompt in a request to DeepSeek *)

(* the text a content of deepseekReq.Messages starts with *)
StartsWithPrompt(content, prompt) ==
    \/ "string" \in DOMAIN content /\ HasPrefix(content.string, prompt)
    \/ /\ "array" \in DOMAIN content
       /\ Len(content.array) > 0
       /\ content.array[1].Type = ContentTypeText
       /\ HasPrefix(content.array[1].Text, prompt)

(* the text of the system prompt is somewhere in the content *)
HoldsPrompt(content, prompt) ==
    \/ "string" \in DOMAIN content
         /\ \E k \in 1..Len(content.string) : content.string[k] = prompt[1]
    \/ /\ "array" \in DOMAIN content
       /\ \E j \in 1..Len(content.array) :
             \E k \in 1..Len(content.array[j].Text) :
                 content.array[j].Text[k] = prompt[1]

(* the position in the list given of its first user message, 0 without one *)
FirstUser(messages) ==
    IF \E i \in 1..Len(messages) : messages[i].Role = RoleUser
    THEN CHOOSE i \in 1..Len(messages) :
            /\ messages[i].Role = RoleUser
            /\ \A j \in 1..(i - 1) : messages[j].Role # RoleUser
    ELSE 0

(* C22: a request to DeepSeek built with a system prompt from a list with a
   user message has no message of role system, the content of what the first
   user message became starts with the system prompt (followed by a blank
   line and the text of the user when there is text), and no later message
   holds the system prompt *)
C22_PromptInFirstUserMessage ==
    (deepseekReq.built /\ deepseekReq.prompt # EmptyText
        /\ FirstUser(deepseekReq.from) > 0) =>
        LET prompt == deepseekReq.prompt
            first == FirstUser(deepseekReq.from)
            msg == deepseekReq.from[first]
            part == deepseekReq.parts[first]
            texts == TextParts(msg.Content)
        IN  /\ \A k \in 1..Len(deepseekReq.Messages) :
                  deepseekReq.Messages[k].Role # "system"
            /\ Len(part) = 1
            /\ StartsWithPrompt(part[1].Content, prompt)
            /\ Len(texts) > 0 =>
                  StartsWithPrompt(part[1].Content,
                                   prompt \o BlankLine \o Join(texts, Txt(" ", 1)))
            /\ \A i \in (first + 1)..Len(deepseekReq.parts) :
                  \A k \in 1..Len(deepseekReq.parts[i]) :
                      ~HoldsPrompt(deepseekReq.parts[i][k].Content, prompt)

-----------------------------------------------------------------------------
(* C23: the ids minted for the function calls of a Google response *)

(* the tool calls of a message have distinct ids *)
DistinctIDs(msg) ==
    \A j, k \in 1..Len(msg.ToolCalls) :
        j # k => msg.ToolCalls[j].ID # msg.ToolCalls[k].ID

(* every tool_result of the list became a functionResponse named after the
   function whose result it carries *)
ResponsesNamed(req) ==
    \A i \in 1..Len(req.from) :
        \A k \in 1..Len(req.from[i].Content) :
            LET content == req.from[i].Content[k]
            IN  content.Type = ContentTypeToolRes =>
                    /\ "FunctionResponse" \in DOMAIN req.Contents[i].Parts[k]
                    /\ req.Contents[i].Parts[k].FunctionResponse.Name
                           = content.Text[1].c

(* C23: the function calls of a Google response get distinct ids, and in a
   request built from the history every tool_result is a functionResponse
   that has the name of the function of the tool call it answers *)
C23_ResultsNamedAfterTheirCall ==
    /\ \A i \in 1..Len(googleList) : DistinctIDs(googleList[i])
    /\ googleReq.built => ResponsesNamed(googleReq)

-----------------------------------------------------------------------------
(* C24: the chunks of a stream reach the caller *)

(* the canonical form of the k-th chunk: a response whose first choice
   carries the text of the chunk *)
CarriesChunk(response, k) ==
    /\ response # Nil
    /\ Len(response.Choices) > 0
    /\ \E j \in 1..Len(response.Choices[1].Message.Content) :
          response.Choices[1].Message.Content[j].Text = Txt("delta", k)

(* C24: when a stream has ended and the caller, who never cancelled, has
   received all there was to receive, it has received one response for every
   chunk the scanner parsed, in the order of the chunks, each carrying its
   chunk in canonical form *)
C24_ChunksDelivered ==
    (StreamEnded /\ ~ctxDone /\ unifiedCh.buf = <<>>) =>
        /\ Len(received) = Scanned
        /\ \A k \in 1..Len(received) : CarriesChunk(received[k], k)

-----------------------------------------------------------------------------
(* C25: with truncation enabled, the history as truncated on entry of a Chat
   call (the snapshot the call takes of it) and the system prompt together
   are estimated at no more than MaxHistoryTokens tokens *)
C25_WithinMaxAfterEntry ==
    (pc # "idle" /\ EnableTruncation) =>
        CalculateUnitTokens(historySnapshot) + CalculateTokens(systemPrompt)
            <= MaxHistoryTokens

-----------------------------------------------------------------------------
(* C26: the most recent safe unit under truncation *)

(* the most recent safe unit of the history given to truncateHistory *)
LastUnit ==
    LET units == identifySafeUnits(preHistory) IN units[Len(units)]

(* the truncation was triggered with tokens available, and the history has a
   most recent safe unit, which fits in the available tokens *)
LastUnitFits ==
    /\ Truncated
    /\ Triggered(preHistory)
    /\ AvailableTokens > 0
    /\ identifySafeUnits(preHistory) # <<>>
    /\ LastUnit.TokenCount <= AvailableTokens

(* the truncated history holds the messages of the most recent unit *)
RetainsLastUnit ==
    /\ IsSuffix(historySnapshot, preHistory)
    /\ Len(historySnapshot) >= Len(preHistory) - LastUnit.StartIndex

(* the truncated history starts where a unit of type dialog starts *)
StartsAtDialog ==
    \E k \in 1..Len(identifySafeUnits(preHistory)) :
        LET unit == identifySafeUnits(preHistory)[k]
        IN  /\ unit.UnitType = "dialog"
            /\ unit.StartIndex = Len(preHistory) - Len(historySnapshot)

(* C26, as stated: when the truncation is triggered with tokens available and
   the most recent safe unit fits in them, the truncated history is not empty
   and retains that unit, whatever the types of the units *)
C26_LastUnitRetained ==
    LastUnitFits => (historySnapshot # <<>> /\ RetainsLastUnit)

(* C26, amended: in that case, when the most recent unit is a dialog the
   truncated history is not empty and retains it; when it is a tool_sequence
   the truncated history is either empty or starts at a dialog unit and
   retains the most recent unit; and when every unit is a tool_sequence the
   truncated history is empty *)
C26_LastUnitRetainedFromDialog ==
    LastUnitFits =>
        /\ LastUnit.UnitType = "dialog" =>
              (historySnapshot # <<>> /\ RetainsLastUnit)
        /\ LastUnit.UnitType # "dialog" =>
              \/ historySnapshot = <<>>
              \/ RetainsLastUnit /\ StartsAtDialog
        /\ (\A k \in 1..Len(identifySafeUnits(preHistory)) :
                identifySafeUnits(preHistory)[k].UnitType = "tool_sequence")
              => historySnapshot = <<>>

(* a truncation that selected a tool_sequence as the most recent unit and a
   dialog before it, and dropped older messages *)
C26_Witness ==
    /\ LastUnitFits
    /\ LastUnit.UnitType = "tool_sequence"
    /\ historySnapshot # <<>>
    /\ Len(historySnapshot) < Len(preHistory)

-----------------------------------------------------------------------------
(* C27: after any registrations, modifications of parameter descriptions and
   additions of MCP servers, for every registered function the i-th name
   under which CallRegisteredFunction fetches the i-th argument
   (cm.funcParamNames) is the name that the advertised tool definition, the
   saved one and the one of the tool list, gives to the i-th parameter. *)
AdvertisedAs(name) ==
    { RequestTools[i] : i \in { k \in 1..Len(RequestTools) :
                                  RequestTools[k].Name = name } }

C27_FetchedByAdvertisedName ==
    \A name \in DOMAIN registeredFuncs :
        /\ name \in DOMAIN funcSchemas /\ name \in DOMAIN funcParamNames
        /\ funcSchemas[name].Required = funcParamNames[name]
        /\ \A tool \in AdvertisedAs(name) :
              tool.Required = funcParamNames[name]

(* a native function whose saved tool definition names its parameter
   otherwise than cm.funcParamNames does: what ModifyFunctionParaDescription
   leaves behind when it is given other names *)
C27_ModifiedSchemaRenamed ==
    \E name \in DOMAIN registeredFuncs :
        /\ registeredFuncs[name].kind = "native"
        /\ funcSchemas[name].Required # funcParamNames[name]

-----------------------------------------------------------------------------
(* C29: whenever the dispatcher's Chat returns a nil error to Chat it returns
   a response that is not nil, whatever the vendor answered (tool call
   arguments that are not JSON included): Chat is never unwound by the
   dereference of a nil response, and a response that cannot be converted
   reaches Chat as an error, upon which the history is rolled back and the
   error returned. *)
C29_NilErrorNonNilResponse ==
    /\ (dispatched.returned /\ dispatched.err.nil) => dispatched.resp # Nil
    /\ (dispatched.returned /\ dispatched.resp = Nil) =>
          /\ pc = "done"
          /\ ~ret.err.nil
          /\ history = historySnapshot

-----------------------------------------------------------------------------
(* C30: when a Chat call given an observer channel succeeds, the messages it
   sent on the channel are, one by one and in the same order, the messages it
   appended to the history, which are the list it returns; also when the user
   text is empty and there are no images. *)
C30_ObserverSeesAppended ==
    (pc = "done" /\ ret.returned /\ ret.err.nil) =>
        /\ info_chan = ret.messages
        /\ history = historySnapshot \o info_chan

-----------------------------------------------------------------------------
(* C28: every Chat call eventually returns, for every MaxFunctionCallingNums
   that is not negative, when every provider request and every tool
   invocation returns (a registered function that panics does not return),
   also when every response has a tool call. *)
ToolPanicked ==
    /\ pc = "panicked"
    /\ rounds # <<>>
    /\ rounds[Len(rounds)].outcomes # <<>>
    /\ LET outcomes == rounds[Len(rounds)].outcomes
       IN  outcomes[Len(outcomes)].cause = "panics"

C28_ChatReturns ==
    (pc = "request" /\ MaxFunctionCallingNums >= 0)
        ~> (ret.returned \/ ToolPanicked)

====
